---------------------------- MODULE Spec2Model ----------------------------
(***************************************************************************)
(* A model of the virtual try-on service (sidjay999/Tryon):                *)
(*   - the job orchestrator run_tryon_pipeline (app/queue/tasks.py), the   *)
(*     Celery worker that runs it (app/queue/worker.py) and the HTTP       *)
(*     handlers that submit and poll jobs (app/routers/tryon.py);          *)
(*   - the identity mask exclude_face_from_mask                            *)
(*     (app/pipeline/segmentation.py);                                     *)
(*   - the face-protection data flow through run_inpainting                *)
(*     (app/pipeline/inpainting.py) and blend_result                       *)
(*     (app/pipeline/blending.py).                                         *)
(***************************************************************************)
EXTENDS Integers, Sequences, FiniteSets, TLC

VARIABLES
    \* ---- orchestrator (specification Spec) ----
    s3_configured,  \* s3.is_configured(): credentials present in the settings
    submitted,      \* job ids handed out by submit_tryon so far
    queue,          \* the broker queue: job ids waiting for a worker slot
    backend,        \* the result backend: job id -> [state, step, progress, kind]
    wjob,           \* worker slot -> the job it executes, or NoJob
    pc,             \* worker slot -> position inside run_tryon_pipeline
    exc,            \* worker slot -> the step whose exception is in flight
    frees,          \* job id -> number of free_gpu_memory() calls of its task
    runs,           \* job id -> number of times the task body was entered
    trace,          \* job id -> the stages entered, in order
    s3objs,         \* job ids that have a result object in the bucket
    polled,         \* job id -> what polling has observed so far
    req,            \* job id -> position of a status request in flight
    \* ---- exclude_face_from_mask on its own (specification SpecMask) ----
    mk_pc,          \* "idle", "input" (arguments drawn) or "done" (applied)
    mk_mask,        \* the mask argument
    mk_bbox,        \* the face_bbox argument: <<x1, y1, x2, y2>> or None
    mk_pad,         \* the padding argument
    mk_out,         \* the returned mask
    mk_log,         \* what the caller logged about the bbox: "info", "warning"
    \* One run of the pipeline with its images and arrays as objects
    fr_pc,          \* position in run_tryon_pipeline
    fr_scene,       \* the photographed scene
    fr_det,         \* what the InsightFace collaborator does
    fr_pad,         \* settings.face_mask_padding
    fr_heap,        \* the pixel buffers allocated so far
    fr_refs,        \* the buffer each named image or array refers to (0: none)
    fr_snap,        \* the pixels each stage input held when it was produced
    \* ---- the images of one pipeline run (specification SpecPipe) ----
    pp_pc,          \* "idle", "start", "segmented", "inpainted" or "done"
    pp_scene,       \* the photo: where the face and the clothing are
    pp_det,         \* what the InsightFace collaborator does on this photo
    pp_pad,         \* settings.face_mask_padding
    pp_seg,         \* the SegmentationResult
    pp_bbox,        \* run_inpainting's face_bbox
    pp_inmask,      \* the inpaint_mask handed to the generative step
    pp_comp,        \* the composite handed to the generative step
    pp_gen,         \* the generated image
    pp_restored,    \* whether blend_result restored the face region
    pp_final,       \* the blended result
    pp_blend,       \* blend_result's collaborators' outcomes and its path
    \* ---- warp_clothing on its own (specification SpecWarp) ----
    wp_pc,          \* "idle", "input" or "done"
    wp_size,        \* target_size: <<W, H>>
    wp_mask,        \* person_clothing_mask, at the target size
    wp_out,         \* what warp_clothing did and returned
    \* ---- _histogram_match on its own (specification SpecHist) ----
    hm_pc,          \* "idle", "input" or "done"
    hm_src,         \* the image A
    hm_out,         \* _histogram_match(A, A)
    \* ---- model loading and the synthesis stage (specification SpecTier) ----
    ld_pc,          \* "idle", "boot", "loaded", "synth" or "blend"
    ld_vram,        \* _get_vram_gb()
    ld_settings,    \* settings.use_refiner, settings.face_identity_enabled
    ld_low_vram,    \* low_vram of load_all_models
    ld_offload,     \* whether enable_model_cpu_offload() was called
    ld_models,      \* the registry _models: name -> value
    ld_run,         \* what the last run_inpainting did
    \* ---- blend_result on its own (specification SpecBlend) ----
    bl_pc,          \* "idle", "input" or "done"
    bl_orig,        \* original_person
    bl_gen,         \* generated_image
    bl_mask,        \* clothing_mask
    bl_out          \* what blend_result did and returned

orchVars == <<s3_configured, submitted, queue, backend, wjob, pc, exc, frees,
              runs, trace, s3objs, polled, req>>

maskVars == <<mk_pc, mk_mask, mk_bbox, mk_pad, mk_out, mk_log>>

pipeVars == <<pp_pc, pp_scene, pp_det, pp_pad, pp_seg, pp_bbox, pp_inmask,
              pp_comp, pp_gen, pp_restored, pp_final, pp_blend>>

warpVars == <<wp_pc, wp_size, wp_mask, wp_out>>

histVars == <<hm_pc, hm_src, hm_out>>

tierVars == <<ld_pc, ld_vram, ld_settings, ld_low_vram, ld_offload, ld_models,
              ld_run>>

frameVars == <<fr_pc, fr_scene, fr_det, fr_pad, fr_heap, fr_refs, fr_snap>>

blendVars == <<bl_pc, bl_orig, bl_gen, bl_mask, bl_out>>

auxVars == <<warpVars, histVars, tierVars, frameVars, blendVars>>

vars == <<orchVars, maskVars, pipeVars, auxVars>>

---------------------------------------------------------------------------
(* Bounds of the model and program constants *)

NumJobs == 2

\* Width and height of the rasters of the model, and the largest padding.
ImgW == 4
ImgH == 3
MaxPad == 2

\* Width and height of the generated image blend_result is applied to on
\* its own: wider than two erosions by the 15 x 15 kernel reach.
BlendW == 24
BlendH == 5

\* settings.celery_max_concurrency, the worker_concurrency of the Celery app
celery_max_concurrency_mutant == 1 + 1
celery_max_concurrency == 1

\* max_retries of the task decorator
max_retries == 1

Jobs == 1..NumJobs
Slots == 1..celery_max_concurrency
NoJob == 0
NoProgress == -1

Max(a, b) == IF a >= b THEN a ELSE b
Min(a, b) == IF a <= b THEN a ELSE b

---------------------------------------------------------------------------
(* run_tryon_pipeline: the straight-line order of its steps *)

\* The step that follows step p when p returns normally.
NextPcSkipPose(p) ==
    CASE p = "begin"        -> "decode"
      [] p = "decode"       -> "segmentation"
      [] p = "segmentation" -> "warp"
      [] p = "pose"         -> "warp"
      [] p = "warp"         -> "inpainting"
      [] p = "inpainting"   -> "blend"
      [] p = "blend"        -> "free"
      [] p = "free"         -> "upload"
      [] p = "upload"       -> "return"

NextPc(p) ==
    CASE p = "begin"        -> "decode"
      [] p = "decode"       -> "segmentation"
      [] p = "segmentation" -> "pose"
      [] p = "pose"         -> "warp"
      [] p = "warp"         -> "inpainting"
      [] p = "inpainting"   -> "blend"
      [] p = "blend"        -> "free"
      [] p = "free"         -> "upload"
      [] p = "upload"       -> "return"

\* The steps that end with self.update_state(state="PROGRESS", ...).
UpdatingSteps == {"begin", "segmentation", "pose", "warp", "inpainting"}

\* meta["progress"] of the update_state call that ends step p.
ProgressAfterMutant(p) ==
    CASE p = "begin"        -> 10
      [] p = "segmentation" -> 25
      [] p = "pose"         -> 40
      [] p = "warp"         -> 20
      [] p = "inpainting"   -> 85

ProgressAfter(p) ==
    CASE p = "begin"        -> 10
      [] p = "segmentation" -> 25
      [] p = "pose"         -> 40
      [] p = "warp"         -> 55
      [] p = "inpainting"   -> 85

\* meta["step"] of the update_state call that ends step p.
StepAfter(p) ==
    CASE p = "begin"        -> "segmentation"
      [] p = "segmentation" -> "pose"
      [] p = "pose"         -> "warp"
      [] p = "warp"         -> "inpainting"
      [] p = "inpainting"   -> "blend"

\* result_payload["progress"] of a returned task.
DoneProgress == 100

\* The except block ends in a bare raise: the task ends by raising, and the
\* worker stores FAILURE.  (A handler that swallowed the exception would make
\* the worker store SUCCESS.)
StateAfterExceptMutant == "SUCCESS"
StateAfterExcept == "FAILURE"

\* The task asks for a retry only through self.retry() or autoretry_for; the
\* task does neither, so max_retries is never consulted.
RetryRequested == FALSE

Terminal == {"SUCCESS", "FAILURE"}

PendingRec == [state |-> "PENDING", step |-> "", progress |-> NoProgress, kind |-> "none"]

---------------------------------------------------------------------------
(* get_tryon_status: the response computed from the backend record *)

\* result.info of a FAILURE record as AsyncResult returns it: the backend
\* decodes the result of a record in an exception state into an exception
\* object (exception_to_python), whether the task stored a meta dict through
\* update_state or the worker stored the raised exception.  A dict would
\* be "dict".
ResultInfo(r) == "exception_object"

\* Lines 82-87: info = result.info or {}; info.get("exc_message", ...).  An
\* exception object is truthy and has no get(): the handler raises
\* AttributeError and the framework answers 500 without the detail.
FailureDetail(r) ==
    IF ResultInfo(r) = "dict" THEN "message_and_job_id" ELSE "unhandled_attribute_error"

\* state.lower() of line 89, for the state names of Celery.
Lower(state) ==
    CASE state = "PENDING"  -> "pending"
      [] state = "RECEIVED" -> "received"
      [] state = "STARTED"  -> "started"
      [] state = "PROGRESS" -> "progress"
      [] state = "SUCCESS"  -> "success"
      [] state = "FAILURE"  -> "failure"
      [] state = "RETRY"    -> "retry"
      [] state = "REVOKED"  -> "revoked"
      [] state = "REJECTED" -> "rejected"
      [] state = "IGNORED"  -> "ignored"

\* Lines 63-70, the PROGRESS branch: meta = result.info or {} read from the
\* record r, answered as processing with meta.get("step", "") and
\* meta.get("progress", 0).  The meta of a progress update and the payload of
\* a returned task are dicts that hold both keys; a record without a result
\* (PENDING) gives {}, the record of STARTED holds pid and hostname; the
\* result of a record in an exception state is an exception object, on which
\* meta.get raises AttributeError.
InfoResponse(r) ==
    CASE r.kind \in {"progress", "result"} ->
              [status |-> "processing", step |-> r.step, progress |-> r.progress,
               detail |-> "none"]
      [] r.kind = "none" ->
              [status |-> "processing", step |-> "", progress |-> 0,
               detail |-> "none"]
      [] r.kind \in {"failmeta", "exception"} ->
              [status |-> "error", step |-> "none", progress |-> NoProgress,
               detail |-> "unhandled_attribute_error"]

\* Lines 58-89: the response computed from one record r, read as result.state
\* and, in the same state, as result.info or result.result.
Response(r) ==
    CASE r.state = "PENDING"  -> [status |-> "pending", step |-> "none", progress |-> 0,
                                  detail |-> "none"]
      [] r.state = "PROGRESS" -> InfoResponse(r)
      [] r.state = "SUCCESS"  -> [status |-> "completed", step |-> "none",
                                  progress |-> 100, detail |-> "none"]
      [] r.state = "FAILURE"  -> [status |-> "error", step |-> "none",
                                  progress |-> NoProgress,
                                  detail |-> FailureDetail(r)]
      [] OTHER                -> [status |-> Lower(r.state), step |-> "none",
                                  progress |-> NoProgress, detail |-> "none"]

\* The progress values get_tryon_status may answer for a job that succeeds.
ProgressValues == {0, 10, 25, 40, 55, 85, 100}

NoPoll == [maxp |-> NoProgress, mono |-> TRUE, known |-> TRUE, last |-> "none"]

---------------------------------------------------------------------------
(* Orchestrator: initial state *)

InitOrch ==
    /\ s3_configured \in BOOLEAN
    /\ submitted = {}
    /\ queue = <<>>
    /\ backend = [j \in Jobs |-> PendingRec]
    /\ wjob = [w \in Slots |-> NoJob]
    /\ pc = [w \in Slots |-> "idle"]
    /\ exc = [w \in Slots |-> "none"]
    /\ frees = [j \in Jobs |-> 0]
    /\ runs = [j \in Jobs |-> 0]
    /\ trace = [j \in Jobs |-> <<>>]
    /\ s3objs = {}
    /\ polled = [j \in Jobs |-> NoPoll]
    /\ req = [j \in Jobs |-> "none"]

IdleMask ==
    /\ mk_pc = "idle"
    /\ mk_mask = <<>>
    /\ mk_bbox = <<>>
    /\ mk_pad = 0
    /\ mk_out = <<>>
    /\ mk_log = "none"

\* The orchestrator at rest, for the specifications of the pure functions.
IdleOrch == InitOrch /\ s3_configured = FALSE

IdlePipe ==
    /\ pp_pc = "idle"
    /\ pp_scene = <<>>
    /\ pp_det = <<>>
    /\ pp_pad = 0
    /\ pp_seg = <<>>
    /\ pp_bbox = <<>>
    /\ pp_inmask = <<>>
    /\ pp_comp = <<>>
    /\ pp_gen = <<>>
    /\ pp_restored = FALSE
    /\ pp_final = <<>>
    /\ pp_blend = <<>>

IdleWarp ==
    /\ wp_pc = "idle"
    /\ wp_size = <<>>
    /\ wp_mask = <<>>
    /\ wp_out = <<>>

IdleHist ==
    /\ hm_pc = "idle"
    /\ hm_src = <<>>
    /\ hm_out = <<>>

IdleTier ==
    /\ ld_pc = "idle"
    /\ ld_vram = 0
    /\ ld_settings = <<>>
    /\ ld_low_vram = FALSE
    /\ ld_offload = FALSE
    /\ ld_models = <<>>
    /\ ld_run = <<>>

IdleFrame ==
    /\ fr_pc = "idle"
    /\ fr_scene = <<>>
    /\ fr_det = <<>>
    /\ fr_pad = 0
    /\ fr_heap = <<>>
    /\ fr_refs = <<>>
    /\ fr_snap = <<>>

IdleBlend ==
    /\ bl_pc = "idle"
    /\ bl_orig = <<>>
    /\ bl_gen = <<>>
    /\ bl_mask = <<>>
    /\ bl_out = <<>>

Init ==
    /\ InitOrch /\ IdleMask /\ IdlePipe /\ IdleWarp /\ IdleHist /\ IdleTier
    /\ IdleFrame /\ IdleBlend

---------------------------------------------------------------------------
(* Request side *)

\* submit_tryon: a fresh job id, apply_async puts the task on the queue.
Submit(j) ==
    /\ j \notin submitted
    /\ \A k \in Jobs : k < j => k \in submitted
    /\ submitted' = submitted \cup {j}
    /\ queue' = Append(queue, j)
    /\ UNCHANGED <<maskVars, pipeVars, auxVars, s3_configured, backend, wjob, pc, exc, frees, runs, trace,
                   s3objs, polled, req>>

\* What polling has observed of job j once resp is answered: the largest
\* progress answered so far, whether every answered progress was at least
\* the ones before it, whether every answered progress was one of
\* ProgressValues, and the status answered last.
Observe(old, resp) ==
    LET hasp == resp.progress # NoProgress
    IN [maxp |-> Max(old.maxp, resp.progress),
        mono |-> old.mono /\ (hasp => resp.progress >= old.maxp),
        known |-> old.known /\ (hasp => resp.progress \in ProgressValues),
        last |-> resp.status]

\* get_tryon_status, line 58: state = result.state reads the record of the
\* id, whether or not a job was submitted under it (an unknown id reads
\* PENDING).  AsyncResult keeps the record it has read only if its state is
\* ready (SUCCESS, FAILURE): in those branches result.result and result.info
\* are the record just read and the handler answers from it; PENDING and the
\* states of the last branch need no second read.  In the PROGRESS branch
\* result.info reads the backend again (PollInfo).
Poll(j) ==
    /\ req[j] = "none"
    /\ IF backend[j].state = "PROGRESS"
       THEN /\ req' = [req EXCEPT ![j] = "info"]
            /\ polled' = polled
       ELSE /\ req' = req
            /\ polled' = [polled EXCEPT ![j] = Observe(@, Response(backend[j]))]
    /\ UNCHANGED <<maskVars, pipeVars, auxVars, s3_configured, submitted, queue, backend, wjob, pc, exc,
                   frees, runs, trace, s3objs>>

\* get_tryon_status, lines 64-70: the second read of the PROGRESS branch,
\* of whatever record the backend holds by now.
PollInfo(j) ==
    /\ req[j] = "info"
    /\ req' = [req EXCEPT ![j] = "none"]
    /\ polled' = [polled EXCEPT ![j] = Observe(@, InfoResponse(backend[j]))]
    /\ UNCHANGED <<maskVars, pipeVars, auxVars, s3_configured, submitted, queue, backend, wjob, pc, exc,
                   frees, runs, trace, s3objs>>

\* result_expires = 3600 (worker.py:21): the backend drops a record one hour
\* after it was stored, and the id reads PENDING again.  The record of a
\* running task is rewritten at every stage; the model lets the record
\* expire once the task has ended (no stage lasts an hour).
Expire(j) ==
    /\ backend[j].state \in Terminal
    /\ \A w \in Slots : wjob[w] # j
    /\ backend' = [backend EXCEPT ![j] = PendingRec]
    /\ UNCHANGED <<maskVars, pipeVars, auxVars, s3_configured, submitted, queue, wjob, pc, exc, frees,
                   runs, trace, s3objs, polled, req>>

\* s3.delete_object(key) for the key results/<j>.png: the object is removed
\* from the bucket; a ClientError is logged and swallowed.  Nothing in the
\* service calls it; it is an operation open to the bucket's owner.
DeleteObject(j) ==
    /\ j \in s3objs
    /\ \E o \in {"ok", "client_error"} :
         s3objs' = IF o = "ok" THEN s3objs \ {j} ELSE s3objs
    /\ UNCHANGED <<maskVars, pipeVars, auxVars, s3_configured, submitted, queue, backend, wjob, pc, exc,
                   frees, runs, trace, polled, req>>

---------------------------------------------------------------------------
(* Worker side *)

\* A free worker slot takes the next task; task_track_started makes the
\* worker store STARTED before the body runs.
Start(w) ==
    /\ wjob[w] = NoJob
    /\ queue # <<>>
    /\ LET j == Head(queue) IN
         /\ wjob' = [wjob EXCEPT ![w] = j]
         /\ backend' = [backend EXCEPT ![j] =
                [state |-> "STARTED", step |-> "", progress |-> NoProgress,
                 kind |-> "none"]]
         /\ runs' = [runs EXCEPT ![j] = @ + 1]
         /\ trace' = [trace EXCEPT ![j] = <<>>]
         /\ frees' = [frees EXCEPT ![j] = 0]
    /\ queue' = Tail(queue)
    /\ pc' = [pc EXCEPT ![w] = "begin"]
    /\ exc' = [exc EXCEPT ![w] = "none"]
    /\ UNCHANGED <<maskVars, pipeVars, auxVars, s3_configured, submitted, s3objs, polled, req>>

ProgressRec(p) ==
    [state |-> "PROGRESS", step |-> StepAfter(p), progress |-> ProgressAfter(p),
     kind |-> "progress"]

\* Lines 49-50, before the try: the first update_state.  If the backend
\* write raises, the exception leaves the task without passing the except
\* block.
TaskBegin(w) ==
    /\ pc[w] = "begin"
    /\ \E o \in {"ok", "update_raises"} :
         IF o = "ok"
         THEN /\ backend' = [backend EXCEPT ![wjob[w]] = ProgressRec("begin")]
              /\ pc' = [pc EXCEPT ![w] = NextPc("begin")]
              /\ exc' = exc
         ELSE /\ backend' = backend
              /\ pc' = [pc EXCEPT ![w] = "raise"]
              /\ exc' = [exc EXCEPT ![w] = "begin"]
    /\ UNCHANGED <<maskVars, pipeVars, auxVars, s3_configured, submitted, queue, wjob, frees, runs, trace,
                   s3objs, polled, req>>

\* One step of the try block: the call of step p, then (for the steps that
\* have one) the update_state that follows it.  An exception raised by
\* either goes to the except block.
Step(w, p, o) ==
    /\ pc[w] = p
    /\ trace' = [trace EXCEPT ![wjob[w]] =
                   IF p = "decode" THEN @ ELSE Append(@, p)]
    /\ CASE o = "ok" ->
              /\ backend' = IF p \in UpdatingSteps
                            THEN [backend EXCEPT ![wjob[w]] = ProgressRec(p)]
                            ELSE backend
              /\ pc' = [pc EXCEPT ![w] = NextPc(p)]
              /\ exc' = exc
         [] o = "raises" ->
              /\ backend' = backend
              /\ pc' = [pc EXCEPT ![w] = "except"]
              /\ exc' = [exc EXCEPT ![w] = p]
    /\ UNCHANGED <<maskVars, pipeVars, auxVars, s3_configured, submitted, queue, wjob, frees, runs, s3objs,
                   polled, req>>

StepOutcomes == {"ok", "raises"}

\* Lines 53-57: Image.open, convert, resize_to_square.
Decode(w) == \E o \in StepOutcomes : Step(w, "decode", o)

\* Lines 59-63: segment_person, dilate_mask, progress 25.
Segmentation(w) == \E o \in StepOutcomes : Step(w, "segmentation", o)

\* Lines 65-68: extract_pose, progress 40.
Pose(w) == \E o \in StepOutcomes : Step(w, "pose", o)

\* Lines 70-77: warp_clothing, progress 55.
Warp(w) == \E o \in StepOutcomes : Step(w, "warp", o)

\* Lines 79-87: run_inpainting, progress 85.
Inpaint(w) == \E o \in StepOutcomes : Step(w, "inpainting", o)

\* Lines 89-95: blend_result.
Blend(w) == \E o \in StepOutcomes : Step(w, "blend", o)

\* Line 96: free_gpu_memory() on the success path.  The call is inside the
\* try: if it raises, the except block runs.
FreeAfterBlend(w) ==
    /\ pc[w] = "free"
    /\ frees' = [frees EXCEPT ![wjob[w]] = @ + 1]
    /\ \E o \in StepOutcomes :
         IF o = "ok"
         THEN /\ pc' = [pc EXCEPT ![w] = NextPc("free")]
              /\ exc' = exc
         ELSE /\ pc' = [pc EXCEPT ![w] = "except"]
              /\ exc' = [exc EXCEPT ![w] = "free"]
    /\ UNCHANGED <<maskVars, pipeVars, auxVars, s3_configured, submitted, queue, backend, wjob, runs,
                   trace, s3objs, polled, req>>

\* Lines 98-105: the result hand-off.  With S3 configured: upload_image
\* (put_object), then get_presigned_url; either may raise, the second after
\* the object is stored.  Without: encode_image_base64.
Upload(w) ==
    /\ pc[w] = "upload"
    /\ trace' = [trace EXCEPT ![wjob[w]] = Append(@, "upload")]
    /\ \E o \in {"ok", "raises", "sign_raises"} :
         /\ o = "sign_raises" => s3_configured
         /\ s3objs' = IF s3_configured /\ o \in {"ok", "sign_raises"}
                      THEN s3objs \cup {wjob[w]} ELSE s3objs
         /\ pc' = [pc EXCEPT ![w] = IF o = "ok" THEN NextPc("upload") ELSE "except"]
         /\ exc' = IF o = "ok" THEN exc ELSE [exc EXCEPT ![w] = "upload"]
    /\ UNCHANGED <<maskVars, pipeVars, auxVars, s3_configured, submitted, queue, backend, wjob, frees, runs,
                   polled, req>>

\* Line 108: return result_payload; the worker stores SUCCESS with it and
\* the slot is free again.
Return(w) ==
    /\ pc[w] = "return"
    /\ backend' = [backend EXCEPT ![wjob[w]] =
           [state |-> "SUCCESS", step |-> "done", progress |-> DoneProgress,
            kind |-> "result"]]
    /\ wjob' = [wjob EXCEPT ![w] = NoJob]
    /\ pc' = [pc EXCEPT ![w] = "idle"]
    /\ UNCHANGED <<maskVars, pipeVars, auxVars, s3_configured, submitted, queue, exc, frees, runs, trace,
                   s3objs, polled, req>>

\* Lines 110-112: except Exception: log, free_gpu_memory().  If the call
\* raises, its exception leaves the task in place of the first and line 113
\* is not reached.
ExceptFree(w) ==
    /\ pc[w] = "except"
    /\ frees' = [frees EXCEPT ![wjob[w]] = @ + 1]
    /\ \E o \in StepOutcomes :
         IF o = "ok"
         THEN /\ pc' = [pc EXCEPT ![w] = "except_update"]
              /\ exc' = exc
         ELSE /\ pc' = [pc EXCEPT ![w] = "raise"]
              /\ exc' = [exc EXCEPT ![w] = "except_free"]
    /\ UNCHANGED <<maskVars, pipeVars, auxVars, s3_configured, submitted, queue, backend, wjob, runs,
                   trace, s3objs, polled, req>>

\* Lines 113-116: update_state(state=FAILURE, meta={exc_type, exc_message,
\* job_id}).  If the write raises, its exception leaves the task in place
\* of the first and line 117 is not reached.
ExceptUpdate(w) ==
    /\ pc[w] = "except_update"
    /\ \E o \in {"ok", "update_raises"} :
         IF o = "ok"
         THEN /\ backend' = [backend EXCEPT ![wjob[w]] =
                     [state |-> "FAILURE", step |-> exc[w],
                      progress |-> NoProgress, kind |-> "failmeta"]]
              /\ exc' = exc
         ELSE /\ backend' = backend
              /\ exc' = [exc EXCEPT ![w] = "except_update"]
    /\ pc' = [pc EXCEPT ![w] = "raise"]
    /\ UNCHANGED <<maskVars, pipeVars, auxVars, s3_configured, submitted, queue, wjob, frees, runs,
                   trace, s3objs, polled, req>>

\* Line 117 (and an exception of line 50, 112 or 113): the exception leaves
\* the task.
\* The worker stores the task's final state with the exception as its
\* result; a retry would need RetryRequested.
Raise(w) ==
    /\ pc[w] = "raise"
    /\ LET j == wjob[w] IN
         IF RetryRequested /\ runs[j] <= max_retries
         THEN /\ queue' = Append(queue, j)
              /\ backend' = [backend EXCEPT ![j] =
                     [state |-> "RETRY", step |-> exc[w],
                      progress |-> NoProgress, kind |-> "exception"]]
         ELSE /\ queue' = queue
              /\ backend' = [backend EXCEPT ![j] =
                     [state |-> StateAfterExcept, step |-> exc[w],
                      progress |-> NoProgress, kind |-> "exception"]]
    /\ wjob' = [wjob EXCEPT ![w] = NoJob]
    /\ pc' = [pc EXCEPT ![w] = "idle"]
    /\ UNCHANGED <<maskVars, pipeVars, auxVars, s3_configured, submitted, exc, frees, runs, trace, s3objs,
                   polled, req>>

NextOrch ==
    \/ \E j \in Jobs : Submit(j)
    \/ \E j \in Jobs : Poll(j)
    \/ \E j \in Jobs : PollInfo(j)
    \/ \E j \in Jobs : Expire(j)
    \/ \E j \in Jobs : DeleteObject(j)
    \/ \E w \in Slots : Start(w)
    \/ \E w \in Slots : TaskBegin(w)
    \/ \E w \in Slots : Decode(w)
    \/ \E w \in Slots : Segmentation(w)
    \/ \E w \in Slots : Pose(w)
    \/ \E w \in Slots : Warp(w)
    \/ \E w \in Slots : Inpaint(w)
    \/ \E w \in Slots : Blend(w)
    \/ \E w \in Slots : FreeAfterBlend(w)
    \/ \E w \in Slots : Upload(w)
    \/ \E w \in Slots : Return(w)
    \/ \E w \in Slots : ExceptFree(w)
    \/ \E w \in Slots : ExceptUpdate(w)
    \/ \E w \in Slots : Raise(w)

Next == NextOrch

---------------------------------------------------------------------------
(* Rasters.  A mask is arr[y][x] with values 0..255 (numpy's (H, W) array   *)
(* of a mode "L" image); a bbox is <<x1, y1, x2, y2>>; None is <<>>.        *)

Xs == 0..(ImgW - 1)
Ys == 0..(ImgH - 1)
None == <<>>

Height(arr) == Cardinality(DOMAIN arr)
Width(arr) == Cardinality(DOMAIN arr[0])

\* Image.size: <<width, height>>.
Size(img) == <<Width(img), Height(img)>>

\* The raster of size <<width, height>> that holds v at every pixel.
Flat(size, v) == [y \in 0..(size[2] - 1) |-> [x \in 0..(size[1] - 1) |-> v]]

\* The index a slice bound i denotes in a sequence of length n: a negative
\* bound counts from the end, and both are clamped to 0..n.
SliceIndex(i, n) == IF i < 0 THEN Max(i + n, 0) ELSE Min(i, n)

\* Whether index k is selected by the slice [lo:hi] of a length-n axis.
InSlice(k, lo, hi, n) == SliceIndex(lo, n) <= k /\ k < SliceIndex(hi, n)

\* exclude_face_from_mask(mask, face_bbox, padding).
exclude_face_from_mask(mask, face_bbox, padding) ==
    IF face_bbox = None THEN mask
    ELSE LET x1 == face_bbox[1]
             y1 == face_bbox[2]
             x2 == face_bbox[3]
             y2 == face_bbox[4]
             H == Height(mask)
             W == Width(mask)
             y1p == Max(0, y1 - padding)
             y2p == Min(H, y2 + padding)
             x1p == Max(0, x1 - padding)
             x2p == Min(W, x2 + padding)
         IN [y \in DOMAIN mask |-> [x \in DOMAIN mask[y] |->
                IF InSlice(y, y1p, y2p, H) /\ InSlice(x, x1p, x2p, W)
                THEN 0 ELSE mask[y][x]]]

---------------------------------------------------------------------------
(* exclude_face_from_mask on drawn arguments *)

\* The masks drawn: all replace, all keep, and the two checkerboards, so
\* that every pixel is 255 in some mask and 0 in another.
MaskKinds == {"full", "empty", "even", "odd"}

MaskOfKind(k) ==
    [y \in Ys |-> [x \in Xs |->
        CASE k = "full"  -> 255
          [] k = "empty" -> 0
          [] k = "even"  -> IF (x + y) % 2 = 0 THEN 255 ELSE 0
          [] k = "odd"   -> IF (x + y) % 2 = 1 THEN 255 ELSE 0]]

\* The bboxes drawn: x1 <= x2 and y1 <= y2, each coordinate from one pixel
\* before the raster to one pixel past it (a detector's bbox need not lie
\* inside the frame), and None.
BBoxes ==
    {<<x1, y1, x2, y2>> : x1 \in -1..ImgW, y1 \in -1..ImgH,
                          x2 \in -1..ImgW, y2 \in -1..ImgH}

DrawnBBoxes == {b \in BBoxes : b[1] <= b[3] /\ b[2] <= b[4]} \cup {None}

InitMask ==
    /\ IdleOrch
    /\ IdlePipe
    /\ IdleWarp
    /\ IdleHist
    /\ IdleTier
    /\ IdleFrame
    /\ IdleBlend
    /\ mk_pc = "input"
    /\ mk_mask \in {MaskOfKind(k) : k \in MaskKinds}
    /\ mk_bbox \in DrawnBBoxes
    /\ mk_pad \in 0..MaxPad
    /\ mk_out = <<>>
    /\ mk_log = "none"

\* The caller's report on the bbox it passed (run_inpainting): `if
\* face_bbox:` logs the exclusion, else it warns that the full mask is used.
\* A bbox tuple is truthy.
FaceBBoxLogMutant(face_bbox) == "info"
FaceBBoxLog(face_bbox) == IF face_bbox # None THEN "info" ELSE "warning"

\* The call of exclude_face_from_mask and the caller's report.
ExcludeFace ==
    /\ mk_pc = "input"
    /\ mk_out' = exclude_face_from_mask(mk_mask, mk_bbox, mk_pad)
    /\ mk_log' = FaceBBoxLog(mk_bbox)
    /\ mk_pc' = "done"
    /\ UNCHANGED <<mk_mask, mk_bbox, mk_pad>>
    /\ UNCHANGED <<orchVars, pipeVars, auxVars>>

NextMask == ExcludeFace

\* A bbox in the form _extract_face_bbox produces: inclusive pixel indices
\* inside the raster.
InFrame(b) ==
    /\ b # None
    /\ 0 <= b[1] /\ b[1] <= b[3] /\ b[3] < ImgW
    /\ 0 <= b[2] /\ b[2] <= b[4] /\ b[4] < ImgH

\* Pixel (x, y) lies in bbox b expanded by p and clipped to the raster.
InPadded(x, y, b, p) ==
    /\ Max(0, b[1] - p) <= x /\ x <= Min(ImgW - 1, b[3] + p)
    /\ Max(0, b[2] - p) <= y /\ y <= Min(ImgH - 1, b[4] + p)

\* C1: for an in-frame inclusive bbox and padding p >= 0 the result is 0 at
\* every pixel of the bbox expanded by p and clipped to the raster, and
\* equals the input mask at every other pixel.
C1_ZeroInsidePaddedBBox ==
    (mk_pc = "done" /\ InFrame(mk_bbox)) =>
        \A y \in Ys, x \in Xs :
            mk_out[y][x] = IF InPadded(x, y, mk_bbox, mk_pad) THEN 0
                           ELSE mk_mask[y][x]

SpecMask == InitMask /\ [][NextMask]_vars

---------------------------------------------------------------------------
(* Images.  An image is img[y][x][c], c in 1..3, values 0..255.             *)

Chans == 1..3
Pixels == Ys \X Xs

CLOTHING_LABELS == {4, 5, 6, 7, 8, 16, 17}
FACE_LABEL == 11

\* A photo of the model: the face fills the rectangle face (or there is no
\* face: None) and clothing (label 4) fills the rows from cloth_top down,
\* outside the face; everything else is background (label 0).
Scenes ==
    [face : {b \in DrawnBBoxes : b = None \/ InFrame(b)},
     cloth_top : {0, 1, ImgH}]

InBox(x, y, b) == b[1] <= x /\ x <= b[3] /\ b[2] <= y /\ y <= b[4]

\* The label map the Segformer collaborator returns for a scene.
Labels(sc) ==
    [y \in Ys |-> [x \in Xs |->
        IF sc.face # None /\ InBox(x, y, sc.face) THEN FACE_LABEL
        ELSE IF y >= sc.cloth_top THEN 4 ELSE 0]]

\* The person image of a scene: two skin tones on the face, one clothing
\* colour, white background (resize_to_square pads with white).
PersonImage(sc) ==
    [y \in Ys |-> [x \in Xs |->
        LET l == Labels(sc)[y][x] IN
        IF l = FACE_LABEL
        THEN (IF (x + y) % 2 = 0 THEN <<200, 150, 120>> ELSE <<180, 130, 100>>)
        ELSE IF l = 4 THEN <<20, 40, 160>> ELSE <<255, 255, 255>>]]

\* _extract_face_bbox(labels, face_label): min and max pixel index of the
\* face label on each axis, or None.
_extract_face_bbox(labels, face_label) ==
    LET pts == {p \in Pixels : labels[p[1]][p[2]] = face_label}
        xs == {p[2] : p \in pts}
        ys == {p[1] : p \in pts}
        min(S) == CHOOSE v \in S : \A u \in S : v <= u
        max(S) == CHOOSE v \in S : \A u \in S : v >= u
    IN IF pts = {} THEN None ELSE <<min(xs), min(ys), max(xs), max(ys)>>

\* segment_person: the clothing mask and the face bbox of the label map.
segment_person(labels) ==
    [clothing_mask |-> [y \in Ys |-> [x \in Xs |->
                          IF labels[y][x] \in CLOTHING_LABELS THEN 255 ELSE 0]],
     face_bbox |-> _extract_face_bbox(labels, FACE_LABEL)]

\* Whether the offset (ox, oy) from the anchor (the centre) is set in
\* cv2.getStructuringElement(MORPH_ELLIPSE, (k, k)): row oy holds the
\* columns -dx..dx with dx = round(sqrt(r * r - oy * oy)), r = k / 2, cut
\* to the k columns of the kernel.  |ox| <= round(sqrt(n)) is written
\* without the root: (2 |ox| - 1)^2 <= 4 n, or ox = 0.
InEllipse(k, ox, oy) ==
    LET r == k \div 2
        n == r * r - oy * oy
        a == IF ox < 0 THEN -ox ELSE ox
    IN /\ -r <= oy /\ oy <= k - 1 - r /\ oy <= r
       /\ -r <= ox /\ ox <= k - 1 - r
       /\ (a = 0 \/ (2 * a - 1) * (2 * a - 1) <= 4 * n)

\* The pixels of the raster arr under the kernel anchored at (x, y); pixels
\* outside the raster do not take part (the default border value).
Under(arr, k, x, y) ==
    {p \in (DOMAIN arr) \X (DOMAIN arr[0]) : InEllipse(k, p[2] - x, p[1] - y)}

\* The function f itself, with its values computed once.
Force(f) == IF f = f THEN f ELSE f

SetMax(S) == CHOOSE v \in S : \A u \in S : v >= u
SetMin(S) == CHOOSE v \in S : \A u \in S : v <= u

\* cv2.dilate / cv2.erode of a single-channel raster, one iteration.
Dilate(arr, k) ==
    [y \in DOMAIN arr |-> [x \in DOMAIN arr[y] |->
        SetMax({arr[p[1]][p[2]] : p \in Under(arr, k, x, y)})]]

Erode(arr, k) ==
    [y \in DOMAIN arr |-> [x \in DOMAIN arr[y] |->
        SetMin({arr[p[1]][p[2]] : p \in Under(arr, k, x, y)})]]

\* dilate_mask(mask, kernel_size), one iteration.
dilate_mask(mask, kernel_size) == Dilate(mask, kernel_size)

---------------------------------------------------------------------------
(* run_inpainting: the face bbox and the inpaint mask *)

\* What the InsightFace collaborator does: not loaded (face_app is None),
\* raises, finds no face, or finds the faces listed.
DetOutcomes(sc) ==
    {[loaded |-> FALSE, raises |-> FALSE, faces |-> <<>>],
     [loaded |-> TRUE, raises |-> TRUE, faces |-> <<>>],
     [loaded |-> TRUE, raises |-> FALSE, faces |-> <<>>]}
    \cup (IF sc.face = None THEN {}
          ELSE {[loaded |-> TRUE, raises |-> FALSE, faces |-> <<sc.face>>]})

BoxArea(b) == (b[3] - b[1]) * (b[4] - b[2])

\* get_face_bbox_insightface: None when the detector is not loaded, raises
\* or finds nothing; else the bbox of the largest face (the first of the
\* largest, as max() returns).
get_face_bbox_insightface(det) ==
    IF ~det.loaded \/ det.raises \/ det.faces = <<>> THEN None
    ELSE LET n == Len(det.faces)
             best == CHOOSE i \in 1..n :
                        /\ \A k \in 1..n : BoxArea(det.faces[i]) >= BoxArea(det.faces[k])
                        /\ \A k \in 1..(i - 1) : BoxArea(det.faces[k]) < BoxArea(det.faces[i])
         IN det.faces[best]

\* Python's `a or b` on bbox-or-None values: a non-empty tuple is truthy.
Or(a, b) == IF a # None THEN a ELSE b

\* The seg_face_bbox argument of the call of run_inpainting in
\* run_tryon_pipeline: the call passes person_image, warped_clothing,
\* clothing_mask and pose_image only, so the parameter keeps its default.
SegFaceBBoxArg(seg) == None

\* run_inpainting, step 1: the face bbox used and the inpaint mask.
InpaintFaceBBox(det, seg_face_bbox) ==
    Or(get_face_bbox_insightface(det), seg_face_bbox)

InpaintMask(mask_resized, face_bbox, padding) ==
    exclude_face_from_mask(mask_resized, face_bbox, padding)

\* The images the generative collaborator may return for a composite: the
\* composite itself, one flat colour everywhere, or every value shifted.
GenKinds == {"same", "flat", "shift"}

Generated(kind, composite) ==
    [y \in Ys |-> [x \in Xs |->
        CASE kind = "same"  -> composite[y][x]
          [] kind = "flat"  -> <<90, 60, 30>>
          [] kind = "shift" -> [c \in Chans |-> (composite[y][x][c] + 40) % 256]]]

---------------------------------------------------------------------------
(* blend_result *)

\* The number of histogram bins and of lookup-table entries.
Levels == 256

\* The 15 x 15 erosion kernel and the margin added around a MediaPipe
\* detection.
ErodeKernel == 15
DetectMargin == 10

\* The alpha blend is computed in float64.  Every double that occurs in it
\* is a non-negative multiple of 2^-60 below 2^12: it is held as its binary
\* digits, X[i] being the digit of weight 2^(i - FracBits).
FracBits == 60
NumBits == 72
BitIdx == 0..(NumBits - 1)

RECURSIVE Pow2(_)
Pow2(n) == IF n = 0 THEN 1 ELSE 2 * Pow2(n - 1)

Unit(s) == Force([i \in BitIdx |-> IF i = s THEN 1 ELSE 0])

\* The exact sum.  There is a carry into digit i when some lower digit
\* generates one and every digit between passes it on.
BitAdd(X, Y) ==
    LET Carry(i) ==
            IF \E j \in 0..(i - 1) :
                  /\ X[j] = 1 /\ Y[j] = 1
                  /\ \A k \in (j + 1)..(i - 1) : X[k] + Y[k] >= 1
            THEN 1 ELSE 0
    IN Force([i \in BitIdx |-> (X[i] + Y[i] + Carry(i)) % 2])

\* The double nearest to the exact value X: 53 significant digits, a tie
\* going to the even neighbour.
Round53(X) ==
    LET len == IF \A i \in BitIdx : X[i] = 0 THEN 0
               ELSE 1 + SetMax({i \in BitIdx : X[i] = 1})
        s == len - 53
        kept == Force([i \in BitIdx |-> IF i >= s THEN X[i] ELSE 0])
        up == /\ X[s - 1] = 1
              /\ (X[s] = 1 \/ \E i \in 0..(s - 2) : X[i] = 1)
    IN IF s <= 0 THEN X
       ELSE IF up THEN BitAdd(kept, Unit(s)) ELSE kept

\* The exact product of X and the lowest j digits of n.
RECURSIVE MulAcc(_, _, _)
MulAcc(n, X, j) ==
    IF j = 0 THEN Force([i \in BitIdx |-> 0])
    ELSE LET low == MulAcc(n, X, j - 1)
             shifted == Force([i \in BitIdx |->
                                 IF i >= j - 1 THEN X[i - (j - 1)] ELSE 0])
         IN IF (n \div Pow2(j - 1)) % 2 = 1 THEN BitAdd(low, shifted) ELSE low

\* The double product of the uint8 value n and the double X.
FloatMul(n, X) == Round53(MulAcc(n, X, 8))

\* alpha = mask / 255.0 for 0 < mask < 255.  The binary expansion of
\* m / 255 repeats the eight digits of m, which gives its digit k (of
\* weight 2^-k); the quotient is never half-way between two doubles.
Alpha(m) ==
    LET Digit(k) == (m \div Pow2(7 - ((k - 1) % 8))) % 2
        len == CHOOSE n \in 1..8 : Pow2(n - 1) <= m /\ m < Pow2(n)
        k0 == 9 - len
        kept == Force([i \in BitIdx |->
                         IF FracBits - i \in k0..(k0 + 52)
                         THEN Digit(FracBits - i) ELSE 0])
    IN IF Digit(k0 + 53) = 1
       THEN BitAdd(kept, Unit(FracBits - k0 - 52)) ELSE kept

\* 1 - alpha for 0 < alpha < 1.
OneMinus(X) ==
    Round53(BitAdd(Force([i \in BitIdx |-> IF i < FracBits THEN 1 - X[i] ELSE 0]),
                   Unit(0)))

\* astype(np.uint8) of a double below 256: its integer part.
Truncate(X) ==
    LET part[k \in 0..8] ==
            IF k = 8 THEN 0 ELSE X[FracBits + k] + 2 * part[k + 1]
    IN part[0]

\* One channel value of (over * alpha + under * (1 - alpha)).astype(uint8)
\* with alpha = m / 255.0.  For m = 0 and m = 255 alpha is 0.0 and 1.0 and
\* the sum is under and over exactly.
BlendValue(over, under, m) ==
    IF m = 0 THEN under
    ELSE IF m = 255 THEN over
    ELSE LET alpha == Alpha(m)
         IN Truncate(Round53(BitAdd(FloatMul(over, alpha),
                                    FloatMul(under, OneMinus(alpha)))))

\* (gen * alpha + orig * (1 - alpha)).astype(uint8) with alpha = mask / 255.
AlphaBlend(over, under, mask) ==
    [y \in DOMAIN mask |-> [x \in DOMAIN mask[y] |-> [c \in Chans |->
        BlendValue(over[y][x][c], under[y][x][c], mask[y][x])]]]

\* mask_eroded.sum(), as far as `> 0` tells: 1 when a pixel is non-zero.
MaskSum(arr) ==
    IF \E y \in DOMAIN arr, x \in DOMAIN arr[0] : arr[y][x] > 0 THEN 1 ELSE 0

\* What the Poisson solver of cv2.seamlessClone does: it raises cv2.error,
\* or it returns; the values it computes inside the mask are here either
\* the source pixel or the mean of source and destination.
SolverOutcomes == {"raises", "paste", "mean"}

\* seamlessClone first clears the outermost row and column of the mask on
\* every side.
ClearBorder(mask) ==
    [y \in DOMAIN mask |-> [x \in DOMAIN mask[y] |->
        IF x = 0 \/ x = Width(mask) - 1 \/ y = 0 \/ y = Height(mask) - 1
        THEN 0 ELSE mask[y][x]]]

\* cv::boundingRect of the non-zero pixels: <<x, y, width, height>>, or
\* None for an empty mask.
BoundingRect(mask) ==
    LET pts == {p \in (DOMAIN mask) \X (DOMAIN mask[0]) : mask[p[1]][p[2]] # 0}
        xs == {p[2] : p \in pts}
        ys == {p[1] : p \in pts}
    IN IF pts = {} THEN None
       ELSE <<SetMin(xs), SetMin(ys), SetMax(xs) - SetMin(xs) + 1,
              SetMax(ys) - SetMin(ys) + 1>>

\* The rectangle of the destination the patch is written to: the bounding
\* rectangle of the mask, moved so that it is centred on center.
CloneTarget(mask, center) ==
    LET roi_s == BoundingRect(ClearBorder(mask))
    IN IF roi_s = None THEN None
       ELSE <<center[1] - roi_s[3] \div 2, center[2] - roi_s[4] \div 2,
              roi_s[3], roi_s[4]>>

\* Taking dest(roi_d) raises cv2.error when the rectangle leaves the image
\* (the mask has the size of the image).
CloneFits(mask, center) ==
    LET roi_d == CloneTarget(mask, center)
    IN roi_d = None
       \/ (/\ 0 <= roi_d[1] /\ roi_d[1] + roi_d[3] <= Width(mask)
           /\ 0 <= roi_d[2] /\ roi_d[2] + roi_d[4] <= Height(mask))

\* cv2.seamlessClone(src, dst, mask, center, NORMAL_CLONE) when it returns:
\* a copy of dst in which the target rectangle holds the solver's result
\* for the source patch, the pixels of src under the bounding rectangle of
\* the mask.  With an empty mask the copy of dst is returned as it is.
SeamlessClone(src, dst, mask, center, outcome) ==
    LET m == Force(ClearBorder(mask))
        roi_s == BoundingRect(m)
        roi_d == CloneTarget(mask, center)
    IN IF roi_s = None THEN dst
       ELSE [y \in DOMAIN dst |-> [x \in DOMAIN dst[y] |-> [c \in Chans |->
               LET sx == x - roi_d[1] + roi_s[1]
                   sy == y - roi_d[2] + roi_s[2]
                   inside == /\ roi_d[1] <= x /\ x < roi_d[1] + roi_d[3]
                             /\ roi_d[2] <= y /\ y < roi_d[2] + roi_d[4]
               IN IF ~inside THEN dst[y][x][c]
                  ELSE IF m[sy][sx] = 0 THEN dst[y][x][c]
                  ELSE IF outcome = "paste" THEN src[sy][sx][c]
                  ELSE (src[sy][sx][c] + dst[y][x][c]) \div 2]]]

\* What MediaPipe does on the original: unavailable, failing or finding no
\* face (None), or one detection whose pixel box is <<x1, y1, x2, y2>>.
MpOutcomes(sc) ==
    {None} \cup (IF sc.face = None THEN {}
                 ELSE {<<sc.face[1], sc.face[2], sc.face[3] + 1, sc.face[4] + 1>>})

\* _detect_face_region(image_bgr): None, or the mask of the image's size
\* that is 255 on the detection box widened by 10 pixels and clipped.
_detect_face_region(image_bgr, mp) ==
    IF mp = None THEN None
    ELSE LET H == Height(image_bgr)
             W == Width(image_bgr)
             x1 == Max(0, mp[1] - DetectMargin)
             y1 == Max(0, mp[2] - DetectMargin)
             x2 == Min(W, mp[3] + DetectMargin)
             y2 == Min(H, mp[4] + DetectMargin)
         IN [y \in DOMAIN image_bgr |-> [x \in DOMAIN image_bgr[y] |->
                IF InSlice(y, y1, y2, H) /\ InSlice(x, x1, x2, W)
                THEN 255 ELSE 0]]

\* src_cdf[L] (ref_cdf[L]) of channel c: the number of pixels <= L.
Cdf(img, c, L) ==
    Cardinality({p \in (DOMAIN img) \X (DOMAIN img[0]) : img[p[1]][p[2]][c] <= L})

ChanValues(img, c) == {img[p[1]][p[2]][c] : p \in (DOMAIN img) \X (DOMAIN img[0])}

\* lut of _histogram_match for channel c, as stored into the uint8 result,
\* at the levels the source uses.  np.interp(x, xp, arange(256)) finds the
\* last level j with xp[j] <= x and interpolates towards j + 1, which the
\* uint8 store truncates back to j; below xp[0] it gives 0.  The level j is
\* one less than the first level whose reference cdf exceeds x, and that
\* level is a value of the reference; when no level exceeds x, j is the
\* last level.  Source and reference have the same pixel count, so the
\* normalised cdfs compare as the counts do.
HistLut(source, reference, c) ==
    LET ref_cdf == Force([r \in ChanValues(reference, c) |-> Cdf(reference, c, r)])
    IN [v \in ChanValues(source, c) |->
           LET x == Cdf(source, c, v)
               above == {r \in DOMAIN ref_cdf : ref_cdf[r] > x}
           IN IF above = {} THEN Levels - 1
              ELSE IF SetMin(above) = 0 THEN 0
              ELSE SetMin(above) - 1]

\* _histogram_match(source, reference): result[:, :, c] = lut[source[:, :, c]].
_histogram_match(source, reference) ==
    LET lut == Force([c \in Chans |-> HistLut(source, reference, c)])
    IN [y \in DOMAIN source |-> [x \in DOMAIN source[y] |-> [c \in Chans |->
           lut[c][source[y][x][c]]]]]

\* The mask of the alpha composite, in the except branch and in the else
\* branch alike: mask_np, the mask as it was before the erosion.
AlphaMaskMutant(mask_np, mask_eroded) == mask_eroded
AlphaMask(mask_np, mask_eroded) == mask_np

\* Image.resize(size, Image.LANCZOS).  An image that has the size asked for
\* is returned as a copy.  Otherwise each output value is the sum of input
\* values weighted by the filter's coefficients, which are normalised to
\* sum to one and rounded to 22 binary places: an image of a single colour
\* comes out in that colour.  Images of another size are of one colour
\* here.
Resize(img, size) ==
    CASE Size(img) = size -> img
      [] /\ Size(img) # size
         /\ \A y \in DOMAIN img, x \in DOMAIN img[0] : img[y][x] = img[0][0] ->
             Flat(size, img[0][0])

\* blend_result(original_person, generated_image, clothing_mask), with the
\* outcomes of its two collaborators; restored tells whether step 2 ran and
\* path which branch of step 1 produced blended_bgr: "clone" (the solver's
\* result), "alpha_after_raise" (the except branch) or "alpha_direct" (the
\* else branch, the solver not called).
blend_result(original_person, generated_image, clothing_mask, solver, mp) ==
    LET target_size == Size(generated_image)
        orig_bgr == Force(Resize(original_person, target_size))
        gen_bgr == generated_image
        mask_np == Force(Resize(clothing_mask, target_size))
        eroded_once == Force(Erode(mask_np, ErodeKernel))
        mask_eroded == Force(Erode(eroded_once, ErodeKernel))   \* iterations=2
        center == <<Width(orig_bgr) \div 2, Height(orig_bgr) \div 2>>
        cloned == /\ MaskSum(mask_eroded) > 0
                  /\ solver # "raises"
                  /\ CloneFits(mask_eroded, center)
        blended == Force(IF cloned
                         THEN SeamlessClone(gen_bgr, orig_bgr, mask_eroded, center,
                                            solver)
                         ELSE AlphaBlend(gen_bgr, orig_bgr,
                                         AlphaMask(mask_np, mask_eroded)))
        face_mask == Force(_detect_face_region(orig_bgr, mp))
        faced == Force(IF face_mask # None
                       THEN AlphaBlend(orig_bgr, blended, face_mask)
                       ELSE blended)
    IN [image |-> _histogram_match(faced, orig_bgr),
        restored |-> face_mask # None,
        path |-> IF MaskSum(mask_eroded) > 0
                 THEN IF cloned THEN "clone" ELSE "alpha_after_raise"
                 ELSE "alpha_direct"]

---------------------------------------------------------------------------
(* blend_result on drawn arguments *)

BlendSize == <<BlendW, BlendH>>

\* The generated images drawn: one whose pixels all differ, one of a single
\* colour.
BlendGens ==
    {[y \in 0..(BlendH - 1) |-> [x \in 0..(BlendW - 1) |->
         <<(5 + 10 * x) % 256, (20 + 40 * y) % 256, (200 + x + y) % 256>>]],
     Flat(BlendSize, <<90, 60, 30>>)}

\* The originals drawn: a photo at the generated image's size (two skin
\* tones on the left, clothing below, white elsewhere), and the clothing
\* colour alone at a smaller size and at a larger one.
BlendOrigs ==
    {[y \in 0..(BlendH - 1) |-> [x \in 0..(BlendW - 1) |->
         IF x < 6
         THEN (IF (x + y) % 2 = 0 THEN <<200, 150, 120>> ELSE <<180, 130, 100>>)
         ELSE IF y >= 2 THEN <<20, 40, 160>> ELSE <<255, 255, 255>>]],
     Flat(<<ImgW, ImgH>>, <<20, 40, 160>>),
     Flat(<<BlendW + 1, BlendH + 2>>, <<20, 40, 160>>)}

\* The clothing masks drawn, at the generated image's size: nothing,
\* everything, everything but one pixel (which is 0, or 128), and the right
\* half (two erosions leave nothing of it); and everything or nothing at
\* the small size.
BlendMasks ==
    {Flat(BlendSize, 0),
     Flat(BlendSize, 255),
     [y \in 0..(BlendH - 1) |-> [x \in 0..(BlendW - 1) |->
         IF x = 4 /\ y = 2 THEN 0 ELSE 255]],
     [y \in 0..(BlendH - 1) |-> [x \in 0..(BlendW - 1) |->
         IF x = 4 /\ y = 2 THEN 128 ELSE 255]],
     [y \in 0..(BlendH - 1) |-> [x \in 0..(BlendW - 1) |->
         IF x >= BlendW \div 2 THEN 255 ELSE 0]],
     Flat(<<ImgW, ImgH>>, 255),
     Flat(<<ImgW, ImgH>>, 0)}

\* What MediaPipe does on the resized original: None, or one detection at
\* the left or at the right of the frame.
BlendMpOutcomes == {None, <<0, 0, 1, 1>>, <<BlendW - 2, 1, BlendW, 3>>}

InitBlend ==
    /\ IdleOrch
    /\ IdleMask
    /\ IdlePipe
    /\ IdleWarp
    /\ IdleHist
    /\ IdleTier
    /\ IdleFrame
    /\ bl_pc = "input"
    /\ bl_orig \in BlendOrigs
    /\ bl_gen \in BlendGens
    /\ bl_mask \in BlendMasks
    /\ bl_out = <<>>

\* blend_result(original_person, generated_image, clothing_mask).
BlendDrawn ==
    /\ bl_pc = "input"
    /\ \E solver \in SolverOutcomes, mp \in BlendMpOutcomes :
         LET r == blend_result(bl_orig, bl_gen, bl_mask, solver, mp)
         IN bl_out' = [image |-> r.image, restored |-> r.restored,
                       path |-> r.path, solver |-> solver, mp |-> mp]
    /\ bl_pc' = "done"
    /\ UNCHANGED <<bl_orig, bl_gen, bl_mask>>
    /\ UNCHANGED <<orchVars, maskVars, pipeVars, warpVars, histVars, tierVars,
                   frameVars>>

NextBlend == BlendDrawn

SpecBlend == InitBlend /\ [][NextBlend]_vars

---------------------------------------------------------------------------
(* Properties of the orchestrator *)

\* The task of job j has ended by raising: the worker stored the exception.
Failed(j) == backend[j].state = "FAILURE" /\ backend[j].kind = "exception"

\* The exception points of the try block that claim C4 names.  The stored
\* record names the point when the except block ran to its raise; when line
\* 112 or line 113 raises, the record names that line instead.
TryBlockSteps == {"decode", "segmentation", "pose", "warp", "inpainting",
                  "blend", "upload"}

\* C4: every execution that fails at one of the exception points of the try
\* block (decode, segmentation, pose, warp, synthesis, blending, upload or
\* encoding) ends FAILED with free_gpu_memory invoked exactly once.
C4_FailureFreesExactlyOnce ==
    \A j \in Jobs :
        (Failed(j) /\ backend[j].step \in TryBlockSteps) => frees[j] = 1

\* C5: a failing job is re-run once: the task body executes at most twice,
\* and the failure that is stored as terminal is the second one.
C5_SecondFailureIsTerminal ==
    \A j \in Jobs :
        /\ runs[j] <= 1 + max_retries
        /\ Failed(j) => runs[j] = 1 + max_retries

C6_Order == <<"segmentation", "pose", "warp", "inpainting", "blend", "upload">>

IsPrefix(s, t) == Len(s) <= Len(t) /\ \A i \in 1..Len(s) : s[i] = t[i]

\* C6: in every execution the stages are entered in the order segmentation,
\* pose, warp, synthesis, blending, hand-off, none twice and none skipped,
\* and a job is reported done (SUCCESS, progress 100) only after all of them.
C6_StagesInFixedOrder ==
    \A j \in Jobs :
        /\ IsPrefix(trace[j], C6_Order)
        /\ (backend[j].state = "SUCCESS" \/ backend[j].progress = 100)
              => trace[j] = C6_Order

C6_Witness ==
    \E j \in Jobs : backend[j].state = "SUCCESS" /\ trace[j] = C6_Order

\* C7: for a job that succeeded, the progress values polling has answered
\* over its life never decreased, were all among 0, 10, 25, 40, 55, 85, 100,
\* and the answer for the completed job is 100.
C7_ProgressMonotone ==
    \A j \in Jobs :
        backend[j].state = "SUCCESS" =>
            /\ polled[j].mono
            /\ polled[j].known
            /\ Response(backend[j]).progress = 100
            /\ polled[j].maxp <= 100

C7_Witness ==
    \E j \in Jobs : backend[j].state = "SUCCESS" /\ polled[j].maxp = 100

\* The record of job j has lapsed: its task ran and ended, and the backend
\* holds no record of it any more.
Expired(j) ==
    /\ runs[j] > 0
    /\ backend[j].state = "PENDING"
    /\ \A w \in Slots : wjob[w] # j

\* C8 as stated: once a job's status is SUCCESS or FAILURE it never changes
\* afterwards.
C8_TerminalIsFinal ==
    [][\A j \in Jobs :
          backend[j].state \in Terminal => backend'[j].state = backend[j].state]_vars

\* C8: once a job's status is SUCCESS or FAILURE no other status and no
\* PROGRESS update is ever stored for it, so no job is in both; the record
\* can only lapse when it expires, after which the id reads PENDING for good.
C8_TerminalUntilExpiry ==
    [][\A j \in Jobs :
          /\ backend[j].state \in Terminal
                => backend'[j].state \in {backend[j].state, "PENDING"}
          /\ Expired(j) => backend'[j].state = "PENDING"]_vars

C8_Witness ==
    \E j \in Jobs, k \in Jobs, w \in Slots :
        /\ Expired(j) /\ frees[j] > 0 /\ polled[j].last = "pending"
        /\ polled[j].maxp = 100
        /\ Failed(k)
        /\ pc[w] = "idle"

\* C9: at most one pipeline execution is inside the task at any time, and a
\* job submitted after another enters the task only after the earlier one
\* has reached its terminal status.
C9_OneJobAtATime ==
    /\ Cardinality({w \in Slots : pc[w] # "idle"}) <= 1
    /\ \A j1 \in Jobs, j2 \in Jobs :
          (j1 < j2 /\ runs[j2] > 0)
              => (backend[j1].state \in Terminal \/ Expired(j1))

C9_Witness ==
    \E j1 \in Jobs, j2 \in Jobs, w \in Slots :
        /\ j1 < j2 /\ wjob[w] = j2 /\ pc[w] = "segmentation"
        /\ backend[j1].state \in Terminal
        /\ polled[j2].maxp = 0

\* C10: every execution that has ended, by returning or by raising, invoked
\* free_gpu_memory at least once before its terminal status was stored.
C10_ReleaseOnEveryExit ==
    \A j \in Jobs : backend[j].state \in Terminal => frees[j] >= 1

\* C11: for a job whose pipeline failed, the stored failure metadata holds
\* the exception kind, the message and the job id, and polling answers an
\* error response that carries the captured message and the job id.
C11_FailureIsReported ==
    \A j \in Jobs :
        backend[j].state = "FAILURE" =>
            /\ backend[j].kind = "failmeta"
            /\ Response(backend[j]).status = "error"
            /\ Response(backend[j]).detail = "message_and_job_id"

---------------------------------------------------------------------------
(* warp_clothing *)

\* The rows and columns cleared at each edge of the garment mask, and the
\* threshold of _bbox_from_mask.
WarpBorder == 10
MaskThreshold == 127

\* Target sizes run from the largest size whose garment mask is empty to
\* WarpSlack pixels more, on each axis.
WarpSlack == 3

WarpSizes == (2 * WarpBorder)..(2 * WarpBorder + WarpSlack)

\* _bbox_from_mask(mask): inclusive bbox of the pixels above the threshold,
\* or None.
_bbox_from_mask_mutant(mask) ==
    LET pts == {p \in (DOMAIN mask) \X (DOMAIN mask[0]) : mask[p[1]][p[2]] > 0}
        xs == {p[2] : p \in pts}
        ys == {p[1] : p \in pts}
    IN IF pts = {} THEN None
       ELSE <<SetMin(xs), SetMin(ys), SetMax(xs), SetMax(ys)>>

_bbox_from_mask(mask) ==
    LET pts == {p \in (DOMAIN mask) \X (DOMAIN mask[0]) :
                    mask[p[1]][p[2]] > MaskThreshold}
        xs == {p[2] : p \in pts}
        ys == {p[1] : p \in pts}
    IN IF pts = {} THEN None
       ELSE <<SetMin(xs), SetMin(ys), SetMax(xs), SetMax(ys)>>

\* cloth_mask_np: 255 everywhere but the first and last WarpBorder rows and
\* columns.
ClothMask(W, H) ==
    [y \in 0..(H - 1) |-> [x \in 0..(W - 1) |->
        IF \/ InSlice(y, 0, WarpBorder, H) \/ InSlice(y, -WarpBorder, H, H)
           \/ InSlice(x, 0, WarpBorder, W) \/ InSlice(x, -WarpBorder, W, W)
        THEN 0 ELSE 255]]

\* cv2.findHomography on the four corners of two bboxes: the fit normalises
\* each point set by its mean deviation on each axis and gives no matrix
\* (M is None) when one is zero, that is when a bbox has zero width or zero
\* height.
HomographyFits(cloth_bbox, person_bbox) ==
    /\ cloth_bbox[1] # cloth_bbox[3] /\ cloth_bbox[2] # cloth_bbox[4]
    /\ person_bbox[1] # person_bbox[3] /\ person_bbox[2] # person_bbox[4]

\* What the spline refinement does: it returns, or it raises (a singular
\* system, a missing library).
TpsOutcomes == {"ok", "raises"}

\* The corners _affine_warp pairs, in the order of src and dst: top-left,
\* top-right, bottom-right, bottom-left.  The code writes them [x, y]; they
\* are kept here as pixel positions <<y, x>>.
Corners(b) ==
    << <<b[2], b[1]>>, <<b[2], b[3]>>, <<b[4], b[3]>>, <<b[4], b[1]>> >>

\* src_pts / dst_pts of the spline step: the corners and the `// 2` edge
\* midpoints of a bbox, as [y, x].
ControlPoints(b) ==
    LET x1 == b[1]
        y1 == b[2]
        x2 == b[3]
        y2 == b[4]
    IN << <<y1, x1>>, <<y1, (x1 + x2) \div 2>>, <<y1, x2>>,
          <<(y1 + y2) \div 2, x2>>, <<y2, x2>>,
          <<y2, (x1 + x2) \div 2>>, <<y2, x1>>,
          <<(y1 + y2) \div 2, x1>> >>

\* cv2.warpPerspective(clothing, M, size) with the M fitted on the corner
\* pairs: output pixel q holds clothing at M^-1 q, so at destination corner
\* i it holds the garment pixel of source corner i.  The garment position
\* seen at q, None where the corner pairs do not fix it.
WarpPerspectiveAt(cloth_bbox, person_bbox, q) ==
    IF \E i \in 1..4 : Corners(person_bbox)[i] = q
    THEN Corners(cloth_bbox)[CHOOSE i \in 1..4 : Corners(person_bbox)[i] = q]
    ELSE None

\* RBFInterpolator(source_pts, ...) solves a linear system that is singular
\* when two source points coincide.
TpsFits(source_pts) ==
    \A i, j \in DOMAIN source_pts : source_pts[i] = source_pts[j] => i = j

\* <<mapped_y, mapped_x>> at grid position q: the interpolators are fitted
\* on source_pts with the coordinates of target_pts as values and evaluated
\* on the grid position itself, so at source point j they give target point
\* j.  None where the control points do not fix the field.
TpsFieldAt(source_pts, target_pts, q) ==
    IF \E j \in DOMAIN source_pts : source_pts[j] = q
    THEN target_pts[CHOOSE j \in DOMAIN source_pts : source_pts[j] = q]
    ELSE None

\* warp_image: cv2.remap(image, mapped_x, mapped_y) gives output pixel q the
\* image pixel at <<mapped_y[q], mapped_x[q]>>.  The garment position seen
\* at q of the remapped homography output.
WarpImageAt(cloth_bbox, person_bbox, q) ==
    LET r == TpsFieldAt(ControlPoints(cloth_bbox), ControlPoints(person_bbox), q)
    IN IF r = None THEN None
       ELSE WarpPerspectiveAt(cloth_bbox, person_bbox, r)

\* warp_clothing(clothing_image, person_clothing_mask, target_size).  The
\* garment is followed through the transformations applied to it.  With no
\* matrix, cv2.warpPerspective raises inside _affine_warp, which is called
\* outside the try block.  shows[i] is the garment position seen in the
\* output at corner i of the person bbox (None where not fixed).
warp_clothing(person_mask_np, target_size, tps) ==
    LET W == target_size[1]
        H == target_size[2]
        cloth_bbox == _bbox_from_mask(ClothMask(W, H))
        person_bbox == _bbox_from_mask(person_mask_np)
    IN IF cloth_bbox = None \/ person_bbox = None
       THEN [raised |-> FALSE, warped_clothing |-> <<"resize">>,
             clothing_mask |-> person_mask_np, shows |-> None]
       ELSE IF ~HomographyFits(cloth_bbox, person_bbox)
       THEN [raised |-> TRUE, warped_clothing |-> None, clothing_mask |-> None,
             shows |-> None]
       ELSE IF tps = "ok" /\ TpsFits(ControlPoints(cloth_bbox))
       THEN [raised |-> FALSE,
             warped_clothing |-> <<"resize", "homography", "tps">>,
             clothing_mask |-> person_mask_np,
             shows |-> [i \in 1..4 |->
                          WarpImageAt(cloth_bbox, person_bbox,
                                      Corners(person_bbox)[i])]]
       ELSE [raised |-> FALSE,
             warped_clothing |-> <<"resize", "homography">>,
             clothing_mask |-> person_mask_np,
             shows |-> [i \in 1..4 |->
                          WarpPerspectiveAt(cloth_bbox, person_bbox,
                                            Corners(person_bbox)[i])]]

\* The placement masks drawn: black, or one rectangle of value v on black,
\* with v at the threshold, just above it, or 255.
WarpCoords == {0, WarpBorder, 2 * WarpBorder - 1}

WarpRects ==
    {b \in WarpCoords \X WarpCoords \X WarpCoords \X WarpCoords :
        b[1] <= b[3] /\ b[2] <= b[4]} \cup {None}

WarpValues == {MaskThreshold, MaskThreshold + 1, 255}

RectMask(W, H, b, v) ==
    [y \in 0..(H - 1) |-> [x \in 0..(W - 1) |->
        IF b # None /\ InBox(x, y, b) THEN v ELSE 0]]

InitWarp ==
    /\ IdleOrch
    /\ IdleMask
    /\ IdlePipe
    /\ IdleHist
    /\ IdleTier
    /\ IdleFrame
    /\ IdleBlend
    /\ wp_pc = "input"
    /\ wp_size \in WarpSizes \X WarpSizes
    /\ \E b \in WarpRects, v \in WarpValues :
          wp_mask = RectMask(wp_size[1], wp_size[2], b, v)
    /\ wp_out = <<>>

WarpClothing ==
    /\ wp_pc = "input"
    /\ \E tps \in TpsOutcomes : wp_out' = warp_clothing(wp_mask, wp_size, tps)
    /\ wp_pc' = "done"
    /\ UNCHANGED <<wp_size, wp_mask>>
    /\ UNCHANGED <<orchVars, maskVars, pipeVars, blendVars, histVars, tierVars, frameVars>>

NextWarp == WarpClothing

SpecWarp == InitWarp /\ [][NextWarp]_vars

\* No pixel of the mask is above the mask threshold.
NothingAbove(mask) ==
    \A y \in DOMAIN mask : \A x \in DOMAIN mask[y] : mask[y][x] <= MaskThreshold

\* The garment mask of a target size is empty: no pixel is left between the
\* cleared borders.
GarmentEmpty(size) == size[1] <= 2 * WarpBorder \/ size[2] <= 2 * WarpBorder

\* C12: when the placement mask has no pixel above the threshold, or the
\* garment bbox is empty, warp_clothing returns the garment only resized,
\* with the placement mask, takes no homography or spline step and does not
\* raise.
C12_EmptyMaskFallback ==
    (wp_pc = "done" /\ (NothingAbove(wp_mask) \/ GarmentEmpty(wp_size))) =>
        /\ ~wp_out.raised
        /\ wp_out.warped_clothing = <<"resize">>
        /\ wp_out.clothing_mask = wp_mask

C12_Witness ==
    /\ wp_pc = "done"
    /\ ~GarmentEmpty(wp_size)
    /\ NothingAbove(wp_mask)
    /\ \E y \in DOMAIN wp_mask : \E x \in DOMAIN wp_mask[y] : wp_mask[y][x] > 0
    /\ wp_out.warped_clothing = <<"resize">>

\* C13: for every placement mask with a pixel above the threshold, a
\* degenerate bbox included, warp_clothing returns a WarpResult and raises
\* nothing.
C13_WarpNeverRaises ==
    (wp_pc = "done" /\ ~NothingAbove(wp_mask)) => ~wp_out.raised

---------------------------------------------------------------------------
(* _histogram_match of an image against itself *)

\* The images drawn: two intensities lo < hi laid out in a pattern, the same
\* in every channel ("gray") or with lo and hi exchanged in the second
\* channel ("swap"); every channel has two distinct values.
HistPalette == {0, 1, 100, 101, 254, 255}

HistPatterns == {"even", "odd", "corner", "toprow"}

HistModes == {"gray", "swap"}

OnPattern(k, x, y) ==
    CASE k = "even"   -> (x + y) % 2 = 0
      [] k = "odd"    -> (x + y) % 2 = 1
      [] k = "corner" -> x = 0 /\ y = 0
      [] k = "toprow" -> y = 0

TwoToneImage(lo, hi, k, mode) ==
    [y \in Ys |-> [x \in Xs |-> [c \in Chans |->
        IF OnPattern(k, x, y) = (mode = "swap" /\ c = 2) THEN lo ELSE hi]]]

InitHist ==
    /\ IdleOrch
    /\ IdleMask
    /\ IdlePipe
    /\ IdleWarp
    /\ IdleTier
    /\ IdleFrame
    /\ IdleBlend
    /\ hm_pc = "input"
    /\ \E lo \in HistPalette, hi \in HistPalette, k \in HistPatterns, m \in HistModes :
          /\ lo < hi
          /\ hm_src = TwoToneImage(lo, hi, k, m)
    /\ hm_out = <<>>

HistogramMatchSelf ==
    /\ hm_pc = "input"
    /\ hm_out' = _histogram_match(hm_src, hm_src)
    /\ hm_pc' = "done"
    /\ UNCHANGED hm_src
    /\ UNCHANGED <<orchVars, maskVars, pipeVars, blendVars, warpVars, tierVars, frameVars>>

NextHist == HistogramMatchSelf

SpecHist == InitHist /\ [][NextHist]_vars

\* C14: for an image A whose channels each have at least two distinct
\* values, _histogram_match(A, A) equals A at every pixel and channel.
C14_SelfMatchIsIdentity ==
    hm_pc = "done" => hm_out = hm_src

\* C15: blend_result with an all-zero clothing mask returns the original:
\* no generated pixel reaches the output and the self histogram match leaves
\* the original unchanged.
C15_ZeroMaskReturnsOriginal ==
    (pp_pc = "done" /\ \A y \in Ys, x \in Xs : pp_seg.clothing_mask[y][x] = 0) =>
        pp_final = PersonImage(pp_scene)

---------------------------------------------------------------------------
(* load_all_models and the optional collaborators of run_inpainting *)

VRAM_THRESHOLD_GB == 10

\* The largest accelerator capacity drawn, in GB; 0 is no accelerator.
MaxVramGB == 12

\* low_vram of load_all_models.
low_vram_mutant(vram_gb) == vram_gb < VRAM_THRESHOLD_GB
low_vram(vram_gb) == vram_gb > 0 /\ vram_gb < VRAM_THRESHOLD_GB

\* Whether load_all_models loads the refiner.
RefinerWantedMutant(settings, low) == settings.use_refiner
RefinerWanted(settings, low) == settings.use_refiner /\ ~low

\* How the loading of an optional model ends.
LoadOutcomes == {"ok", "raises"}

\* load_all_models: the tier, the offload switch and the registry.  The
\* three optional entries are set to None first; the refiner is loaded when
\* wanted, and stays None when its loading raises; _load_insightface
\* returns None when InsightFace is unavailable.
load_all_models(vram_gb, settings, refiner_load, insightface_load) ==
    LET low == low_vram(vram_gb)
        refiner == IF RefinerWanted(settings, low) /\ refiner_load = "ok"
                   THEN "loaded" ELSE "None"
        face_app == IF insightface_load = "ok" THEN "loaded" ELSE "None"
    IN [low_vram |-> low,
        offload |-> low,
        models |-> [n \in {"device", "dtype", "refiner_pipe", "ip_adapter",
                           "face_app", "inpaint_pipe", "seg_processor",
                           "seg_model", "pose_detector"} |->
                      CASE n = "refiner_pipe" -> refiner
                        [] n = "ip_adapter"   -> "None"
                        [] n = "face_app"     -> face_app
                        [] OTHER              -> "loaded"]]

\* get_model(name, optional).
get_model(models, name, optional) ==
    IF name \notin DOMAIN models
    THEN (IF optional THEN "None" ELSE "RuntimeError")
    ELSE models[name]

\* What face_app.get does on the photo.
FaceAppOutcomes == {"raises", "none", "face"}

\* _extract_face_embedding: None unless the detector is loaded and finds a
\* face; every exception inside is caught.
_extract_face_embedding(models, det) ==
    IF get_model(models, "face_app", FALSE) = "loaded" /\ det = "face"
    THEN "embedding" ELSE "None"

\* _run_refiner: the refined image, or the unrefined one when the refiner
\* raises.
_run_refiner_mutant(ref) ==
    IF ref = "ok" THEN [raised |-> FALSE, image |-> "refined"]
    ELSE [raised |-> TRUE, image |-> "none"]

_run_refiner(ref) ==
    IF ref = "ok" THEN [raised |-> FALSE, image |-> "refined"]
    ELSE [raised |-> FALSE, image |-> "generated"]

\* run_inpainting: the lookups of its first two lines, which raise
\* RuntimeError for a name the registry does not hold, then from step 2 on:
\* the embedding, the choice of the generation call, the generation (which
\* may raise) and the refiner pass.
run_inpainting_steps(models, settings, det, gen, ref) ==
    LET device == get_model(models, "device", FALSE)
        inpaint_pipe == get_model(models, "inpaint_pipe", FALSE)
        face_embedding == IF settings.face_identity_enabled
                          THEN _extract_face_embedding(models, det) ELSE "None"
        ip_model == get_model(models, "ip_adapter", FALSE)
        refiner_pipe == get_model(models, "refiner_pipe", TRUE)
        attempt == settings.use_refiner /\ refiner_pipe # "None"
        refined == _run_refiner(ref)
        base == [det |-> det, gen |-> gen, ref |-> ref,
                 embedding |-> face_embedding,
                 conditioned |-> ip_model # "None" /\ face_embedding # "None",
                 refine_attempted |-> FALSE, raised |-> FALSE, image |-> "none"]
    IN IF device = "RuntimeError" \/ inpaint_pipe = "RuntimeError"
       THEN [base EXCEPT !.embedding = "None", !.conditioned = FALSE,
                         !.raised = TRUE]
       ELSE IF ip_model = "RuntimeError" \/ gen = "raises"
       THEN [base EXCEPT !.raised = TRUE]
       ELSE IF attempt
       THEN [base EXCEPT !.refine_attempted = TRUE, !.raised = refined.raised,
                         !.image = refined.image]
       ELSE [base EXCEPT !.image = "generated"]

InitTier ==
    /\ IdleOrch
    /\ IdleMask
    /\ IdlePipe
    /\ IdleWarp
    /\ IdleHist
    /\ IdleFrame
    /\ IdleBlend
    /\ ld_pc = "boot"
    /\ ld_vram \in 0..MaxVramGB
    /\ ld_settings \in [use_refiner : BOOLEAN, face_identity_enabled : BOOLEAN]
    /\ ld_low_vram = FALSE
    /\ ld_offload = FALSE
    /\ ld_models = <<>>
    /\ ld_run = <<>>

\* lifespan: load_all_models() at startup.
LoadAllModels ==
    /\ ld_pc = "boot"
    /\ \E rl \in LoadOutcomes, il \in LoadOutcomes :
         LET r == load_all_models(ld_vram, ld_settings, rl, il)
         IN /\ ld_low_vram' = r.low_vram
            /\ ld_offload' = r.offload
            /\ ld_models' = r.models
    /\ ld_pc' = "loaded"
    /\ UNCHANGED <<ld_vram, ld_settings, ld_run>>
    /\ UNCHANGED <<orchVars, maskVars, pipeVars, blendVars, warpVars, histVars, frameVars>>

\* The synthesis stage of a job; when it returns, the pipeline goes on to
\* blending, and when it raises the job fails.  load_all_models is called
\* by the lifespan of the API application only: a process that runs the
\* stage without it (the Celery worker as app.queue.worker starts it) meets
\* the empty registry.
Synthesize ==
    /\ ld_pc \in {"boot", "loaded"}
    /\ \E det \in FaceAppOutcomes, gen \in StepOutcomes, ref \in StepOutcomes :
         LET r == run_inpainting_steps(ld_models, ld_settings, det, gen, ref)
         IN /\ ld_run' = r
            /\ ld_pc' = IF r.raised THEN "failed" ELSE "blend"
    /\ UNCHANGED <<ld_vram, ld_settings, ld_low_vram, ld_offload, ld_models>>
    /\ UNCHANGED <<orchVars, maskVars, pipeVars, blendVars, warpVars, histVars, frameVars>>

NextTier == LoadAllModels \/ Synthesize

SpecTier == InitTier /\ [][NextTier]_vars

\* load_all_models has run in this process.
Loaded == DOMAIN ld_models # {}

\* C16: the tier computed by load_all_models is CONSTRAINED exactly when
\* 0 < capacity < threshold; capacity 0 and capacity equal to the threshold
\* give FULL.
C16_TierRule ==
    Loaded =>
        (ld_low_vram <=> (0 < ld_vram /\ ld_vram < VRAM_THRESHOLD_GB))

C16_Witness ==
    /\ ld_pc = "loaded"
    /\ ld_vram = 0
    /\ ~ld_low_vram

\* C17: in the CONSTRAINED tier the refiner is not loaded and no job attempts
\* the refinement pass, whatever use_refiner says; after loading the
\* registry has a refiner entry in every tier and the lookup does not fail;
\* offloaded execution is on exactly in the CONSTRAINED tier.
C17_RefinerOnlyInFullTier ==
    /\ ld_pc # "idle" => get_model(ld_models, "refiner_pipe", TRUE) # "RuntimeError"
    /\ Loaded =>
          /\ "refiner_pipe" \in DOMAIN ld_models
          /\ ld_low_vram => ld_models["refiner_pipe"] = "None"
          /\ ld_offload <=> ld_low_vram
          /\ (ld_pc # "loaded" /\ ld_low_vram) => ~ld_run.refine_attempted

C17_Witness ==
    /\ ld_pc = "blend"
    /\ ld_low_vram
    /\ ld_settings.use_refiner
    /\ ~ld_run.refine_attempted
    /\ ld_run.image = "generated"

\* C18: in a process that has loaded its models, when the generation itself
\* returns, an absent or failing face detector or refiner does not fail the
\* job: without an embedding the
\* generation is not identity-conditioned, a refiner that raises leaves the
\* unrefined image, and the pipeline goes on to blending.
C18_OptionalNeverFails ==
    (ld_pc \in {"blend", "failed"} /\ Loaded /\ ld_run.gen = "ok") =>
        /\ ld_pc = "blend"
        /\ ~ld_run.raised
        /\ (ld_models["face_app"] = "None" \/ ld_run.det # "face")
              => (ld_run.embedding = "None" /\ ~ld_run.conditioned)
        /\ (ld_run.refine_attempted /\ ld_run.ref = "raises")
              => ld_run.image = "generated"
        /\ ~ld_run.refine_attempted => ld_run.image = "generated"

C18_Witness ==
    /\ ld_pc = "blend"
    /\ ld_run.det = "raises"
    /\ ld_run.refine_attempted
    /\ ld_run.ref = "raises"
    /\ ld_run.image = "generated"

---------------------------------------------------------------------------
(* Further properties of the orchestrator and of exclude_face_from_mask *)

\* C19: a job that ended FAILED has no result object in the bucket and
\* polling shows no result for it.
C19_NoPartialResult ==
    \A j \in Jobs :
        backend[j].state = "FAILURE" =>
            /\ j \notin s3objs
            /\ Response(backend[j]).status # "completed"

\* The slice bounds <<x1p, y1p, x2p, y2p>> of exclude_face_from_mask.
PaddedBounds(mask, face_bbox, padding) ==
    <<Max(0, face_bbox[1] - padding), Max(0, face_bbox[2] - padding),
      Min(Width(mask), face_bbox[3] + padding),
      Min(Height(mask), face_bbox[4] + padding)>>

\* C20: for every bbox, in or out of the frame, and every padding, the
\* bounds of the zeroed rectangle lie in 0..W and 0..H, and no pixel outside
\* the padded bbox is zeroed.
C20_BoundsClipped ==
    (mk_pc = "done" /\ mk_bbox # None) =>
        LET b == PaddedBounds(mk_mask, mk_bbox, mk_pad) IN
        /\ 0 <= b[1] /\ b[1] <= ImgW /\ 0 <= b[3] /\ b[3] <= ImgW
        /\ 0 <= b[2] /\ b[2] <= ImgH /\ 0 <= b[4] /\ b[4] <= ImgH
        /\ \A y \in Ys, x \in Xs :
              mk_out[y][x] # mk_mask[y][x] =>
                 /\ mk_bbox[1] - mk_pad <= x /\ x <= mk_bbox[3] + mk_pad
                 /\ mk_bbox[2] - mk_pad <= y /\ y <= mk_bbox[4] + mk_pad

\* C21: without a bbox exclude_face_from_mask returns the mask unchanged,
\* whatever the padding, and the caller reports the mask as unprotected.
C21_NoBBoxIsIdentity ==
    (mk_pc = "done" /\ mk_bbox = None) =>
        /\ mk_out = mk_mask
        /\ mk_log = "warning"

C21_Witness ==
    /\ mk_pc = "done"
    /\ mk_bbox = None
    /\ mk_pad > 0
    /\ \E y \in Ys, x \in Xs : mk_mask[y][x] = 255
    /\ \E y \in Ys, x \in Xs : mk_mask[y][x] = 0
    /\ mk_out = mk_mask
    /\ mk_log = "warning"

\* The face-restored, histogram-matched result of blend_result for the
\* step-1 composite given.
BlendFinish(composite, orig, mp) ==
    LET face_mask == Force(_detect_face_region(orig, mp))
        faced == Force(IF face_mask # None
                       THEN AlphaBlend(orig, composite, face_mask)
                       ELSE composite)
    IN _histogram_match(faced, orig)

\* C22: blend_result takes the solver's clone, made with the twice-eroded
\* mask, when that mask has a non-zero pixel and the solver returns, the
\* alpha composite of the uneroded mask when the solver raises, and that
\* alpha composite without calling the solver when the eroded mask is all
\* zero; in every case the result is the histogram match of the
\* face-restored composite and has the generated image's dimensions.
C22_BlendPath ==
    bl_pc = "done" =>
        LET size == Size(bl_gen)
            orig == Force(Resize(bl_orig, size))
            mask == Force(Resize(bl_mask, size))
            eroded == Force(Erode(Erode(mask, ErodeKernel), ErodeKernel))
            nonzero == \E y \in DOMAIN eroded, x \in DOMAIN eroded[0] :
                          eroded[y][x] # 0
            center == <<size[1] \div 2, size[2] \div 2>>
            raised == bl_out.solver = "raises" \/ ~CloneFits(eroded, center)
            composite == Force(IF bl_out.path = "clone"
                               THEN SeamlessClone(bl_gen, orig, eroded, center,
                                                  bl_out.solver)
                               ELSE AlphaBlend(bl_gen, orig, mask))
        IN /\ bl_out.path =
                 (IF nonzero
                  THEN IF raised THEN "alpha_after_raise" ELSE "clone"
                  ELSE "alpha_direct")
           /\ bl_out.image = BlendFinish(composite, orig, bl_out.mp)
           /\ Size(bl_out.image) = Size(bl_gen)

\* The solver raised on a mask that two erosions shrink but do not empty,
\* for an original of another size in which a face was detected: the result
\* is the one of the uneroded mask, not the one the eroded mask would give,
\* and the restoration changed it.
C22_Witness ==
    /\ bl_pc = "done"
    /\ bl_out.path = "alpha_after_raise"
    /\ bl_out.solver = "raises"
    /\ bl_out.mp # None
    /\ Size(bl_mask) = Size(bl_gen)
    /\ Size(bl_orig) # Size(bl_gen)
    /\ Size(bl_out.image) = Size(bl_gen)
    /\ LET orig == Force(Resize(bl_orig, Size(bl_gen)))
           eroded == Force(Erode(Erode(bl_mask, ErodeKernel), ErodeKernel))
       IN /\ eroded # bl_mask
          /\ bl_out.image =
                 BlendFinish(AlphaBlend(bl_gen, orig, bl_mask), orig, bl_out.mp)
          /\ bl_out.image #
                 BlendFinish(AlphaBlend(bl_gen, orig, eroded), orig, bl_out.mp)
          /\ bl_out.image #
                 BlendFinish(AlphaBlend(bl_gen, orig, bl_mask), orig, None)

\* C23: when both bboxes are non-empty and both phases succeed, the output
\* of warp_clothing shows, at each corner of the person bbox, the garment
\* pixel of the corresponding corner of the garment bbox.  Stated in the
\* claim's favour: a corner the control points do not fix is accepted.
C23_CornersStayAligned ==
    (wp_pc = "done" /\ ~wp_out.raised
        /\ wp_out.warped_clothing = <<"resize", "homography", "tps">>) =>
        \A i \in 1..4 :
            \/ wp_out.shows[i] = None
            \/ wp_out.shows[i] =
                   Corners(_bbox_from_mask(ClothMask(wp_size[1], wp_size[2])))[i]

---------------------------------------------------------------------------
(* The images of one run of run_tryon_pipeline *)

DilateKernel == 20

\* The garment photo and the skeleton image of the pose collaborator.
GarmentImage ==
    [y \in Ys |-> [x \in Xs |-> <<220, 30 + 10 * x, 60 + 10 * y>>]]

PoseImage == [y \in Ys |-> [x \in Xs |-> <<0, 0, 0>>]]

\* Pillow's division by 255 of a sum of two 8-bit products, rounded once.
Div255(a) == LET t == a + 128 IN (t + (t \div 256)) \div 256

\* The pixels of im after im.paste(src, mask=mask) with an "L" mask: the
\* blend of the two images weighted by the mask.
Paste(im, src, mask) ==
    [y \in Ys |-> [x \in Xs |-> [c \in Chans |->
        Div255(im[y][x][c] * (255 - mask[y][x]) + src[y][x][c] * mask[y][x])]]]

\* The images warp.warped_clothing may hold: the resized garment when
\* warp_clothing fell back; otherwise some transformed garment, here the
\* garment as it is or a black frame.
WarpedImages(warp) ==
    IF warp.warped_clothing = <<"resize">> THEN {GarmentImage}
    ELSE {GarmentImage, PoseImage}

InitPipe ==
    /\ IdleOrch
    /\ IdleMask
    /\ IdleWarp
    /\ IdleHist
    /\ IdleTier
    /\ IdleFrame
    /\ IdleBlend
    /\ pp_pc = "start"
    /\ pp_scene \in Scenes
    /\ pp_det \in DetOutcomes(pp_scene)
    /\ pp_pad \in 0..MaxPad
    /\ pp_seg = <<>>
    /\ pp_bbox = <<>>
    /\ pp_inmask = <<>>
    /\ pp_comp = <<>>
    /\ pp_gen = <<>>
    /\ pp_restored = FALSE
    /\ pp_final = <<>>
    /\ pp_blend = <<>>

\* seg = segment_person(person_image)
Segment ==
    /\ pp_pc = "start"
    /\ pp_seg' = segment_person(Labels(pp_scene))
    /\ pp_pc' = "segmented"
    /\ UNCHANGED <<pp_scene, pp_det, pp_pad, pp_bbox, pp_inmask, pp_comp,
                   pp_gen, pp_restored, pp_final, pp_blend>>
    /\ UNCHANGED <<orchVars, maskVars, auxVars>>

\* warp = warp_clothing(clothing_image, dilated_mask, target_size), then
\* generated = run_inpainting(person_image, warp.warped_clothing,
\*                            clothing_mask=dilated_mask, pose.pose_image).
\* The pipelines receive the composite: a copy of the person with the warped
\* garment pasted under the dilated mask.
RunInpainting ==
    /\ pp_pc = "segmented"
    /\ \E tps \in TpsOutcomes, kind \in GenKinds :
         LET dilated_mask == dilate_mask(pp_seg.clothing_mask, DilateKernel)
             warp == warp_clothing(dilated_mask, <<ImgW, ImgH>>, tps)
             face_bbox == InpaintFaceBBox(pp_det, SegFaceBBoxArg(pp_seg))
         IN /\ ~warp.raised
            /\ \E warped \in WarpedImages(warp) :
                 LET composite == Paste(PersonImage(pp_scene), warped, dilated_mask)
                 IN /\ pp_comp' = composite
                    /\ pp_gen' = Generated(kind, composite)
            /\ pp_bbox' = face_bbox
            /\ pp_inmask' = InpaintMask(dilated_mask, face_bbox, pp_pad)
    /\ pp_pc' = "inpainted"
    /\ UNCHANGED <<pp_scene, pp_det, pp_pad, pp_seg, pp_restored, pp_final,
                   pp_blend>>
    /\ UNCHANGED <<orchVars, maskVars, auxVars>>

\* final_image = blend_result(person_image, generated, seg.clothing_mask)
BlendResult ==
    /\ pp_pc = "inpainted"
    /\ \E solver \in SolverOutcomes, mp \in MpOutcomes(pp_scene) :
         LET r == blend_result(PersonImage(pp_scene), pp_gen,
                               pp_seg.clothing_mask, solver, mp)
         IN /\ pp_final' = r.image
            /\ pp_restored' = r.restored
            /\ pp_blend' = [solver |-> solver, mp |-> mp, path |-> r.path]
    /\ pp_pc' = "done"
    /\ UNCHANGED <<pp_scene, pp_det, pp_pad, pp_seg, pp_bbox, pp_inmask, pp_comp,
                   pp_gen>>
    /\ UNCHANGED <<orchVars, maskVars, auxVars>>

NextPipe == Segment \/ RunInpainting \/ BlendResult

SpecPipe == InitPipe /\ [][NextPipe]_vars

\* The first non-empty candidate, in priority order.
FirstCandidate(a, b) == IF a # None THEN a ELSE b

\* C2: the face bbox that protects the inpaint mask is the first non-empty
\* of the detector's bbox and the segmentation-derived bbox, and the mask
\* handed to the generative step is the dilated clothing mask zeroed inside
\* that bbox padded; it is unprotected only when both are absent.
C2_FirstCandidateProtects ==
    pp_pc \in {"inpainted", "done"} =>
        LET want == FirstCandidate(get_face_bbox_insightface(pp_det), pp_seg.face_bbox)
        IN /\ pp_bbox = want
           /\ pp_inmask = exclude_face_from_mask(
                              dilate_mask(pp_seg.clothing_mask, DilateKernel),
                              want, pp_pad)

\* C3: in a finished run for which a face bbox is known, the face region
\* was restored by blend_result and every pixel of the face bbox (which lies
\* inside the padded rectangle, away from its edge) equals the original.
C3_FacePixelsPreserved ==
    (pp_pc = "done" /\ (pp_bbox # None \/ pp_seg.face_bbox # None)) =>
        LET b == FirstCandidate(pp_bbox, pp_seg.face_bbox) IN
        /\ pp_restored
        /\ \A y \in Ys, x \in Xs :
              InBox(x, y, b) => pp_final[y][x] = PersonImage(pp_scene)[y][x]

---------------------------------------------------------------------------
(* The images and arrays of one run as objects: which calls allocate and   *)
(* which write in place                                                    *)

\* A new pixel buffer holding content (a PIL image or a numpy array just
\* created): the heap grows by one and the reference is its index.
Alloc(h, content) == [heap |-> Append(h, content), ref |-> Len(h) + 1]

\* An in-place write into buffer r: arr[...] = v, Image.paste.
Store(h, r, content) == [h EXCEPT ![r] = content]

\* Image.copy(), Image.convert(mode) and Image.resize(size) return a new
\* image; the sizes of a run are all output_size, so the pixels are kept.
pil_copy(h, r) == Alloc(h, h[r])

\* np.array(image), np.array(image).copy(): a new array with the pixels of
\* the image.
np_array_mutant(h, r) == [heap |-> h, ref |-> r]
np_array(h, r) == Alloc(h, h[r])

\* exclude_face_from_mask on objects: without a bbox the argument itself is
\* returned; otherwise the rectangle is cleared in a copy and the result is
\* an image on that copy's buffer (Image.fromarray shares it).
ExcludeFaceOnHeap(h, mask, face_bbox, padding) ==
    IF face_bbox = None THEN [heap |-> h, ref |-> mask]
    ELSE LET arr == np_array(h, mask)
         IN [heap |-> Store(arr.heap, arr.ref,
                            exclude_face_from_mask(arr.heap[arr.ref],
                                                   face_bbox, padding)),
             ref |-> arr.ref]

\* The named references of a run and the inputs whose pixels are recorded.
RefNames ==
    {"person", "clothing", "seg_mask", "dilated", "pose", "warped",
     "warp_mask", "person_resized", "mask_resized", "composite",
     "inpaint_mask", "generated", "final"}

Watched ==
    {"person", "clothing", "seg_mask", "dilated", "person_resized",
     "mask_resized"}

InitFrame ==
    /\ IdleOrch
    /\ IdleMask
    /\ IdlePipe
    /\ IdleWarp
    /\ IdleHist
    /\ IdleTier
    /\ IdleBlend
    /\ fr_pc = "start"
    /\ fr_scene \in Scenes
    /\ fr_det \in DetOutcomes(fr_scene)
    /\ fr_pad \in 0..MaxPad
    /\ fr_heap = <<PersonImage(fr_scene), GarmentImage>>
    /\ fr_refs = [n \in RefNames |->
                    IF n = "person" THEN 1 ELSE IF n = "clothing" THEN 2 ELSE 0]
    /\ fr_snap = [n \in Watched \cup {"blend_original"} |->
                    IF n = "person" THEN PersonImage(fr_scene)
                    ELSE IF n = "clothing" THEN GarmentImage ELSE None]

\* seg = segment_person(person_image); dilated_mask = dilate_mask(...).
FrSegment ==
    /\ fr_pc = "start"
    /\ LET seg == segment_person(Labels(fr_scene))
           m == Alloc(fr_heap, seg.clothing_mask)
           arr == np_array(m.heap, m.ref)
           d == Alloc(arr.heap, dilate_mask(arr.heap[arr.ref], DilateKernel))
       IN /\ fr_heap' = d.heap
          /\ fr_refs' = [fr_refs EXCEPT !.seg_mask = m.ref, !.dilated = d.ref]
          /\ fr_snap' = [fr_snap EXCEPT !.seg_mask = d.heap[m.ref],
                                        !.dilated = d.heap[d.ref]]
    /\ fr_pc' = "segmented"
    /\ UNCHANGED <<fr_scene, fr_det, fr_pad>>
    /\ UNCHANGED <<orchVars, maskVars, pipeVars, blendVars, warpVars, histVars, tierVars>>

\* pose = extract_pose(person_image): the detector's image.
FrPose ==
    /\ fr_pc = "segmented"
    /\ LET p == Alloc(fr_heap, PoseImage)
       IN /\ fr_heap' = p.heap
          /\ fr_refs' = [fr_refs EXCEPT !.pose = p.ref]
    /\ fr_pc' = "posed"
    /\ UNCHANGED <<fr_scene, fr_det, fr_pad, fr_snap>>
    /\ UNCHANGED <<orchVars, maskVars, pipeVars, blendVars, warpVars, histVars, tierVars>>

\* warp = warp_clothing(clothing_image, dilated_mask, target_size).  The
\* garment and the mask are resized and converted into new arrays, the
\* garment mask is a new array whose borders are cleared in place, and the
\* returned mask is an image on person_mask_np's buffer.  A warped garment
\* is some new image: the garment or a black frame.
FrWarp ==
    /\ fr_pc = "posed"
    /\ \E tps \in TpsOutcomes :
         LET c == np_array(fr_heap, fr_refs.clothing)
             pm == np_array(c.heap, fr_refs.dilated)
             cm0 == Alloc(pm.heap, [y \in Ys |-> [x \in Xs |-> 255]])
             cm == Store(cm0.heap, cm0.ref, ClothMask(ImgW, ImgH))
             r == warp_clothing(cm[pm.ref], <<ImgW, ImgH>>, tps)
         IN IF r.raised
            THEN /\ fr_heap' = cm
                 /\ fr_pc' = "failed"
                 /\ UNCHANGED fr_refs
            ELSE /\ \E content \in
                        IF r.warped_clothing = <<"resize">>
                        THEN {cm[fr_refs.clothing]}
                        ELSE {cm[c.ref], PoseImage} :
                      LET w == Alloc(cm, content)
                      IN /\ fr_heap' = w.heap
                         /\ fr_refs' = [fr_refs EXCEPT !.warped = w.ref,
                                                       !.warp_mask = pm.ref]
                 /\ fr_pc' = "warped"
    /\ UNCHANGED <<fr_scene, fr_det, fr_pad, fr_snap>>
    /\ UNCHANGED <<orchVars, maskVars, pipeVars, blendVars, warpVars, histVars, tierVars>>

\* run_inpainting, the resized inputs and the composite: a copy of the
\* resized person with the warped garment pasted into it.
FrComposite ==
    /\ fr_pc = "warped"
    /\ LET pr == pil_copy(fr_heap, fr_refs.person)
           mr == pil_copy(pr.heap, fr_refs.dilated)
           wr == pil_copy(mr.heap, fr_refs.warped)
           co == pil_copy(wr.heap, pr.ref)
           h == co.heap
       IN /\ fr_heap' = Store(h, co.ref, Paste(h[co.ref], h[wr.ref], h[mr.ref]))
          /\ fr_refs' = [fr_refs EXCEPT !.person_resized = pr.ref,
                                        !.mask_resized = mr.ref,
                                        !.composite = co.ref]
          /\ fr_snap' = [fr_snap EXCEPT !.person_resized = h[pr.ref],
                                        !.mask_resized = h[mr.ref]]
    /\ fr_pc' = "composited"
    /\ UNCHANGED <<fr_scene, fr_det, fr_pad>>
    /\ UNCHANGED <<orchVars, maskVars, pipeVars, blendVars, warpVars, histVars, tierVars>>

\* run_inpainting, step 1: inpaint_mask = exclude_face_from_mask(
\* mask_resized, face_bbox, padding).
FrExclude ==
    /\ fr_pc = "composited"
    /\ LET seg == segment_person(Labels(fr_scene))
           face_bbox == InpaintFaceBBox(fr_det, SegFaceBBoxArg(seg))
           e == ExcludeFaceOnHeap(fr_heap, fr_refs.mask_resized, face_bbox, fr_pad)
       IN /\ fr_heap' = e.heap
          /\ fr_refs' = [fr_refs EXCEPT !.inpaint_mask = e.ref]
    /\ fr_pc' = "masked"
    /\ UNCHANGED <<fr_scene, fr_det, fr_pad, fr_snap>>
    /\ UNCHANGED <<orchVars, maskVars, pipeVars, blendVars, warpVars, histVars, tierVars>>

\* run_inpainting, steps 2-4: the pipelines return a new image.
FrGenerate ==
    /\ fr_pc = "masked"
    /\ \E kind \in GenKinds :
         LET g == Alloc(fr_heap, Generated(kind, fr_heap[fr_refs.composite]))
         IN /\ fr_heap' = g.heap
            /\ fr_refs' = [fr_refs EXCEPT !.generated = g.ref]
    /\ fr_pc' = "inpainted"
    /\ UNCHANGED <<fr_scene, fr_det, fr_pad, fr_snap>>
    /\ UNCHANGED <<orchVars, maskVars, pipeVars, blendVars, warpVars, histVars, tierVars>>

\* final_image = blend_result(person_image, generated, seg.clothing_mask):
\* resized copies, new arrays of them, and a new result image.
FrBlend ==
    /\ fr_pc = "inpainted"
    /\ \E solver \in SolverOutcomes, mp \in MpOutcomes(fr_scene) :
         LET o == pil_copy(fr_heap, fr_refs.person)
             m == pil_copy(o.heap, fr_refs.seg_mask)
             ob == np_array(m.heap, o.ref)
             gb == np_array(ob.heap, fr_refs.generated)
             mn == np_array(gb.heap, m.ref)
             h == mn.heap
             f == Alloc(h, blend_result(h[ob.ref], h[gb.ref], h[mn.ref],
                                        solver, mp).image)
         IN /\ fr_heap' = f.heap
            /\ fr_refs' = [fr_refs EXCEPT !.final = f.ref]
    /\ fr_snap' = [fr_snap EXCEPT !.blend_original = fr_heap[fr_refs.person]]
    /\ fr_pc' = "done"
    /\ UNCHANGED <<fr_scene, fr_det, fr_pad>>
    /\ UNCHANGED <<orchVars, maskVars, pipeVars, blendVars, warpVars, histVars, tierVars>>

NextFrame ==
    FrSegment \/ FrPose \/ FrWarp \/ FrComposite \/ FrExclude \/ FrGenerate
        \/ FrBlend

SpecFrame == InitFrame /\ [][NextFrame]_vars

\* C24: no stage modifies an image or mask it receives: the person image,
\* the garment, the segmentation mask, the dilated mask and, inside
\* run_inpainting, the resized person and mask hold at every point of the
\* run the pixels they held when they were produced, and the original that
\* blend_result receives is pixel-identical to the image segmentation
\* received.
C24_InputsNotModified ==
    fr_pc # "idle" =>
        /\ \A n \in Watched :
              fr_refs[n] > 0 => fr_heap[fr_refs[n]] = fr_snap[n]
        /\ fr_pc = "done" => fr_snap.blend_original = fr_snap.person

C24_Witness ==
    /\ fr_pc = "done"
    /\ fr_refs.inpaint_mask # fr_refs.mask_resized
    /\ fr_heap[fr_refs.inpaint_mask] # fr_heap[fr_refs.mask_resized]
    /\ fr_heap[fr_refs.composite] # fr_heap[fr_refs.person_resized]
    /\ fr_heap[fr_refs.final] # fr_heap[fr_refs.person]
    /\ fr_heap[fr_refs.mask_resized] = fr_snap.mask_resized
    /\ fr_heap[fr_refs.person] = fr_snap.person
    /\ fr_snap.blend_original = fr_snap.person

Spec == Init /\ [][Next]_vars

=============================================================================
